---------------------------- MODULE Spec2Model ----------------------------
(***************************************************************************)
(* metricforge: the metric registry (parser/loader.py) and the SQL         *)
(* compiler (compiler/sql_builder.py).                                     *)
(*                                                                         *)
(* Text that ends up in SQL (metric names, dimension names, column         *)
(* expressions, filters, table references) is a sequence of one-character  *)
(* strings, so that Python's str.replace / startswith / find act on it     *)
(* character by character; model and measure names are kept in the same    *)
(* form.  An optional value is a                                           *)
(* sequence of length <= 1: None is << >>, a present value x is << x >>.   *)
(* A Python dict whose iteration order the code depends on is a sequence   *)
(* of records in insertion order, with unique keys.                        *)
(***************************************************************************)
EXTENDS Integers, Sequences, FiniteSets, TLC

VARIABLES
    directory,   \* the definitions directory handed to load_directory
    registry,    \* the MetricRegistry object
    loads,       \* number of load_directory calls made so far
    status,      \* "new" | "loaded" | "failed": how the last load ended
    load_error,  \* the exception the last load raised (NoError if none)
    result,      \* what the last lookup / compile call returned or raised
    frames,      \* the frames of the compile calls running concurrently
    hash_order,  \* the order in which this process iterates a set of str
    executor,    \* the DuckDBExecutor object of the store, None before there is one
    duckdb       \* the connections the database library has opened and has open

vars == <<directory, registry, loads, status, load_error, result, frames, hash_order,
          executor, duckdb>>

-----------------------------------------------------------------------------
(* Bounds *)

MaxFiles == 2
MaxLoads == 2
MaxDepth == 4
NumCallers == 2
MaxNameLen == 3

-----------------------------------------------------------------------------
(* Optional values and small sequence helpers *)

None == << >>

Some(x) == << x >>

IsNone(o) == Len(o) = 0

Get(o) == o[1]

Range(s) == { s[i] : i \in 1..Len(s) }

\* index of the first element of s satisfying name = k, 0 when there is none
RECURSIVE FirstIndex(_, _, _)
FirstIndex(s, k, i) ==
    IF i > Len(s) THEN 0
    ELSE IF s[i].name = k THEN i
    ELSE FirstIndex(s, k, i + 1)

\* key membership and lookup of an insertion-ordered dict keyed by .name
HasKey(d, k) == FirstIndex(d, k, 1) # 0

Lookup(d, k) == d[FirstIndex(d, k, 1)]

Keys(d) == { d[i].name : i \in 1..Len(d) }

-----------------------------------------------------------------------------
(* Text: Python str operations on sequences of characters *)

\* s[i..] starts with p
StartsAt(s, p, i) ==
    /\ i + Len(p) - 1 <= Len(s)
    /\ \A j \in 1..Len(p) : s[i + j - 1] = p[j]

\* str.startswith
StartsWith(s, p) == StartsAt(s, p, 1)

\* str.find(c): lowest 0-based index of the character c, -1 coded as Len(s)+1
\* is avoided by returning the 1-based index, 0 when absent
FindFrom(s, c, i) ==
    LET hits == { k \in i..Len(s) : s[k] = c } IN
    IF hits = {} THEN 0
    ELSE CHOOSE k \in hits : \A j \in hits : k <= j

Find(s, c) == FindFrom(s, c, 1)

\* str.rfind(c): highest 1-based index of the character c, 0 when absent
RFindFrom(s, c, i) ==
    LET hits == { k \in 1..i : s[k] = c } IN
    IF hits = {} THEN 0
    ELSE CHOOSE k \in hits : \A j \in hits : k >= j

RFind(s, c) == RFindFrom(s, c, Len(s))

\* str.replace(old, new) for a non-empty old: left to right, non-overlapping,
\* the inserted text is not rescanned
RECURSIVE ReplaceFrom(_, _, _, _)
ReplaceFrom(s, old, new, i) ==
    LET hits == { k \in i..(Len(s) - Len(old) + 1) : StartsAt(s, old, k) } IN
    IF hits = {} THEN SubSeq(s, i, Len(s))
    ELSE LET k == CHOOSE h \in hits : \A j \in hits : h <= j IN
         SubSeq(s, i, k - 1) \o new \o ReplaceFrom(s, old, new, k + Len(old))

\* str.replace("", new) puts new before every character and at the end
Intersperse(s, new, i) ==
    LET rest  == SubSeq(s, i, Len(s))
        block == Len(new) + 1
    IN [p \in 1..(Len(rest) * block + Len(new)) |->
          IF (p - 1) % block < Len(new) THEN new[((p - 1) % block) + 1]
          ELSE rest[((p - 1) \div block) + 1]]

Replace(s, old, new) ==
    IF Len(old) = 0 THEN Intersperse(s, new, 1)
    ELSE ReplaceFrom(s, old, new, 1)

-----------------------------------------------------------------------------
(* Definition records (models/semantic_model.py, models/metric.py) *)

Measure(n, a, e) == [name |-> n, agg |-> a, expr |-> e]

Dimension(n, t, e) == [name |-> n, type |-> t, expr |-> e]

SemanticModel(n, t, ms, ds) ==
    [name |-> n, table |-> t, measures |-> ms, dimensions |-> ds]

\* the raw mapping of one entry of a file's "metrics" list
MetricData(n, t, p, f) == [name |-> n, type |-> t, type_params |-> p, filter |-> f]

-----------------------------------------------------------------------------
(* Exceptions *)

NoError == [type |-> "", msg |-> "", names |-> << >>]

Raise(t, m, ns) == [type |-> t, msg |-> m, names |-> ns]

IsError(e) == e.type # ""

-----------------------------------------------------------------------------
(* The database library: the number of connections duckdb.connect has      *)
(* opened so far, which names the next one, and the ones still open.        *)

NoConnections == [opened |-> 0, open |-> {}]

\* how many connections a store's executor is made to open
MaxConnects == 3

-----------------------------------------------------------------------------
(* MetricRegistry.__init__ *)

EmptyRegistry ==
    [semantic_models   |-> << >>,
     metrics           |-> << >>,
     measure_to_model  |-> << >>,
     dimension_to_model |-> << >>]

\* a step of a loading loop: the registry so far and the exception raised
Step(r, e) == [reg |-> r, err |-> e]

-----------------------------------------------------------------------------
(* MetricRegistry._parse_metric and Metric.validate_type_params *)

ParamsClass(t) ==
    CASE t = "simple"     -> "SimpleMetricParams"
      [] t = "derived"    -> "DerivedMetricParams"
      [] t = "ratio"      -> "RatioMetricParams"
      [] t = "cumulative" -> "CumulativeMetricParams"
      [] OTHER            -> ""

\* the fields a params class requires of the raw type_params mapping
RequiredFields(cls) ==
    CASE cls = "SimpleMetricParams"     -> {"measure"}
      [] cls = "DerivedMetricParams"    -> {"expr", "metrics"}
      [] cls = "RatioMetricParams"      -> {"numerator", "denominator"}
      [] cls = "CumulativeMetricParams" -> {"measure"}
      [] OTHER                          -> {}

\* the params object: the class tag and the class's own fields of the mapping
MakeParams(cls, data) ==
    [f \in {"class"} \cup RequiredFields(cls) |->
        IF f = "class" THEN cls ELSE data[f]]

\* the values of Literal["simple", "derived", "ratio", "cumulative"]
MetricTypeLiteral == {"simple", "derived", "ratio", "cumulative"}

\* a faulty Metric: validate_type_params accepts any params instance
NewMetric_Unvalidated(name, type, type_params, filter) ==
    IF type \notin MetricTypeLiteral
    THEN [err |-> Raise("ValidationError", "Input should be 'simple', 'derived', 'ratio' or 'cumulative'", << name >>),
          metric |-> << >>]
    ELSE [err |-> NoError,
          metric |-> [name |-> name, type |-> type,
                      type_params |-> type_params, filter |-> filter]]

\* Metric(name=, type=, type_params=, filter=) with type_params an instance
\* of a params class: field validation, then validate_type_params.  The
\* ValueError of the validator reaches the caller as a ValidationError.
NewMetric(name, type, type_params, filter) ==
    IF type \notin MetricTypeLiteral
    THEN [err |-> Raise("ValidationError", "Input should be 'simple', 'derived', 'ratio' or 'cumulative'", << name >>),
          metric |-> << >>]
    ELSE IF type_params.class # ParamsClass(type)
    THEN [err |-> Raise("ValidationError", "Metric type requires", << name >>),
          metric |-> << >>]
    ELSE [err |-> NoError,
          metric |-> [name |-> name, type |-> type,
                      type_params |-> type_params, filter |-> filter]]

\* _parse_metric: [err, metric]
ParseMetric(data) ==
    LET cls == ParamsClass(data.type) IN
    IF cls = ""
    THEN [err |-> Raise("ValueError", "Unknown metric type", << data.name >>),
          metric |-> << >>]
    ELSE IF ~ (RequiredFields(cls) \subseteq DOMAIN data.type_params)
    THEN [err |-> Raise("ValidationError", "Field required", << data.name >>),
          metric |-> << >>]
    ELSE NewMetric(data.name, data.type,
                   MakeParams(cls, data.type_params), data.filter)

-----------------------------------------------------------------------------
(* MetricRegistry._load_file *)

\* a faulty models loop: a model whose name is taken replaces the earlier
\* definition instead of failing the load
RECURSIVE LoadModels_Overwrite(_, _, _)
LoadModels_Overwrite(reg, sms, i) ==
    IF i > Len(sms) THEN Step(reg, NoError)
    ELSE LET model == sms[i] IN
         LoadModels_Overwrite(
           [reg EXCEPT !.semantic_models =
               IF HasKey(@, model.name)
               THEN [@ EXCEPT ![FirstIndex(@, model.name, 1)] = model]
               ELSE Append(@, model)],
           sms, i + 1)

\* the "semantic_models" loop from position i
RECURSIVE LoadModels(_, _, _)
LoadModels(reg, sms, i) ==
    IF i > Len(sms) THEN Step(reg, NoError)
    ELSE LET model == sms[i] IN
         IF HasKey(reg.semantic_models, model.name)
         THEN Step(reg, Raise("ValueError", "Duplicate semantic model",
                              << model.name >>))
         ELSE LoadModels(
                [reg EXCEPT !.semantic_models = Append(@, model)], sms, i + 1)

\* a faulty metrics loop: a metric whose name is taken replaces the earlier
\* definition instead of failing the load
RECURSIVE LoadMetrics_Overwrite(_, _, _)
LoadMetrics_Overwrite(reg, mds, i) ==
    IF i > Len(mds) THEN Step(reg, NoError)
    ELSE LET parsed == ParseMetric(mds[i]) IN
         IF IsError(parsed.err) THEN Step(reg, parsed.err)
         ELSE LoadMetrics_Overwrite(
                [reg EXCEPT !.metrics =
                    IF HasKey(@, parsed.metric.name)
                    THEN [@ EXCEPT ![FirstIndex(@, parsed.metric.name, 1)] =
                            parsed.metric]
                    ELSE Append(@, parsed.metric)],
                mds, i + 1)

\* the "metrics" loop from position i
RECURSIVE LoadMetrics(_, _, _)
LoadMetrics(reg, mds, i) ==
    IF i > Len(mds) THEN Step(reg, NoError)
    ELSE LET parsed == ParseMetric(mds[i]) IN
         IF IsError(parsed.err) THEN Step(reg, parsed.err)
         ELSE IF HasKey(reg.metrics, parsed.metric.name)
         THEN Step(reg, Raise("ValueError", "Duplicate metric",
                              << parsed.metric.name >>))
         ELSE LoadMetrics(
                [reg EXCEPT !.metrics = Append(@, parsed.metric)], mds, i + 1)

LoadFile(reg, file) ==
    IF file.empty THEN Step(reg, NoError)
    ELSE LET a == LoadModels(reg, file.semantic_models, 1) IN
         IF IsError(a.err) THEN a
         ELSE LoadMetrics(a.reg, file.metrics, 1)

\* the loop of load_directory over the files, from position i
RECURSIVE LoadFiles(_, _, _)
LoadFiles(reg, files, i) ==
    IF i > Len(files) THEN Step(reg, NoError)
    ELSE LET a == LoadFile(reg, files[i]) IN
         IF IsError(a.err) THEN a
         ELSE LoadFiles(a.reg, files, i + 1)

-----------------------------------------------------------------------------
(* MetricRegistry._build_indexes *)

\* a faulty measures loop: a measure name another model claimed is taken
\* over instead of failing the load
RECURSIVE IndexMeasures_Unchecked(_, _, _, _)
IndexMeasures_Unchecked(reg, model_name, ms, i) ==
    IF i > Len(ms) THEN Step(reg, NoError)
    ELSE IndexMeasures_Unchecked(
           [reg EXCEPT !.measure_to_model = (ms[i].name :> model_name) @@ @],
           model_name, ms, i + 1)

\* a faulty measures loop: only a name that a different model claimed fails
\* the load, a name the model itself claimed is indexed again
RECURSIVE IndexMeasures_OtherModelOnly(_, _, _, _)
IndexMeasures_OtherModelOnly(reg, model_name, ms, i) ==
    IF i > Len(ms) THEN Step(reg, NoError)
    ELSE IF /\ ms[i].name \in DOMAIN reg.measure_to_model
            /\ reg.measure_to_model[ms[i].name] # model_name
    THEN Step(reg, Raise("ValueError", "Duplicate measure name",
                 << ms[i].name, reg.measure_to_model[ms[i].name], model_name >>))
    ELSE IndexMeasures_OtherModelOnly(
           [reg EXCEPT !.measure_to_model = (ms[i].name :> model_name) @@ @],
           model_name, ms, i + 1)

\* the loop over one model's measures
RECURSIVE IndexMeasures(_, _, _, _)
IndexMeasures(reg, model_name, ms, i) ==
    IF i > Len(ms) THEN Step(reg, NoError)
    ELSE IF ms[i].name \in DOMAIN reg.measure_to_model
    THEN Step(reg, Raise("ValueError", "Duplicate measure name",
                 << ms[i].name, reg.measure_to_model[ms[i].name], model_name >>))
    ELSE IndexMeasures(
           [reg EXCEPT !.measure_to_model = (ms[i].name :> model_name) @@ @],
           model_name, ms, i + 1)

\* the loop over one model's dimensions
RECURSIVE IndexDimensions(_, _, _, _)
IndexDimensions(reg, model_name, ds, i) ==
    IF i > Len(ds) THEN Step(reg, NoError)
    ELSE IF ds[i].name \in DOMAIN reg.dimension_to_model
    THEN Step(reg, Raise("ValueError", "Duplicate dimension name",
                 << ds[i].name, reg.dimension_to_model[ds[i].name], model_name >>))
    ELSE IndexDimensions(
           [reg EXCEPT !.dimension_to_model = (ds[i].name :> model_name) @@ @],
           model_name, ds, i + 1)

\* the loop over semantic_models.items(), in insertion order, from position i
RECURSIVE IndexModels(_, _)
IndexModels(reg, i) ==
    IF i > Len(reg.semantic_models) THEN Step(reg, NoError)
    ELSE LET model == reg.semantic_models[i]
             a == IndexMeasures(reg, model.name, model.measures, 1)
         IN IF IsError(a.err) THEN a
            ELSE LET b == IndexDimensions(a.reg, model.name, model.dimensions, 1)
                 IN IF IsError(b.err) THEN b
                    ELSE IndexModels(b.reg, i + 1)

BuildIndexes(reg) == IndexModels(reg, 1)

-----------------------------------------------------------------------------
(* MetricRegistry._validate_references *)

\* the loop over a derived metric's params.metrics, from position j
RECURSIVE CheckDerivedRefs(_, _, _, _)
CheckDerivedRefs(reg, metric_name, refs, j) ==
    IF j > Len(refs) THEN NoError
    ELSE IF ~ HasKey(reg.metrics, refs[j])
    THEN Raise("ValueError", "references unknown metric",
               << metric_name, refs[j] >>)
    ELSE CheckDerivedRefs(reg, metric_name, refs, j + 1)

\* a faulty check of one metric: a ratio's denominator is not looked up
CheckMetric_NoDenominator(reg, metric) ==
    LET params == metric.type_params IN
    CASE metric.type \in {"simple", "cumulative"} ->
           IF params.measure \notin DOMAIN reg.measure_to_model
           THEN Raise("ValueError", "references unknown measure",
                      << metric.name, params.measure >>)
           ELSE NoError
      [] metric.type = "derived" ->
           CheckDerivedRefs(reg, metric.name, params.metrics, 1)
      [] metric.type = "ratio" ->
           IF ~ HasKey(reg.metrics, params.numerator)
           THEN Raise("ValueError", "references unknown numerator metric",
                      << metric.name, params.numerator >>)
           ELSE NoError
      [] OTHER -> NoError

\* the body of the loop for one metric: the exception it raises, or NoError
CheckMetric(reg, metric) ==
    LET params == metric.type_params IN
    CASE metric.type = "simple" ->
           IF params.class # "SimpleMetricParams" THEN NoError
           ELSE IF params.measure \notin DOMAIN reg.measure_to_model
           THEN Raise("ValueError", "references unknown measure",
                      << metric.name, params.measure >>)
           ELSE NoError
      [] metric.type = "derived" ->
           IF params.class # "DerivedMetricParams" THEN NoError
           ELSE CheckDerivedRefs(reg, metric.name, params.metrics, 1)
      [] metric.type = "ratio" ->
           IF params.class # "RatioMetricParams" THEN NoError
           ELSE IF ~ HasKey(reg.metrics, params.numerator)
           THEN Raise("ValueError", "references unknown numerator metric",
                      << metric.name, params.numerator >>)
           ELSE IF ~ HasKey(reg.metrics, params.denominator)
           THEN Raise("ValueError", "references unknown denominator metric",
                      << metric.name, params.denominator >>)
           ELSE NoError
      [] metric.type = "cumulative" ->
           IF params.class # "CumulativeMetricParams" THEN NoError
           ELSE IF params.measure \notin DOMAIN reg.measure_to_model
           THEN Raise("ValueError", "references unknown measure",
                      << metric.name, params.measure >>)
           ELSE NoError
      [] OTHER -> NoError

\* the loop over metrics.items(), in insertion order, from position i
RECURSIVE ValidateFrom(_, _)
ValidateFrom(reg, i) ==
    IF i > Len(reg.metrics) THEN NoError
    ELSE LET e == CheckMetric(reg, reg.metrics[i]) IN
         IF IsError(e) THEN e ELSE ValidateFrom(reg, i + 1)

ValidateReferences(reg) == ValidateFrom(reg, 1)

-----------------------------------------------------------------------------
(* MetricRegistry.load_directory *)

\* dir.exists: the path exists; dir.files: the YAML files in glob order
LoadDirectory(reg, dir) ==
    IF ~ dir.exists
    THEN Step(reg, Raise("FileNotFoundError", "Metrics directory not found", << >>))
    ELSE IF Len(dir.files) = 0
    THEN Step(reg, Raise("ValueError", "No YAML files found", << >>))
    ELSE LET a == LoadFiles(reg, dir.files, 1) IN
         IF IsError(a.err) THEN a
         ELSE LET b == BuildIndexes(a.reg) IN
              IF IsError(b.err) THEN b
              ELSE Step(b.reg, ValidateReferences(b.reg))

-----------------------------------------------------------------------------
(* SemanticModel.get_measure / get_dimension: the first entry of that name *)

ModelGetMeasure(model, name) ==
    IF HasKey(model.measures, name) THEN Some(Lookup(model.measures, name))
    ELSE None

ModelGetDimension(model, name) ==
    IF HasKey(model.dimensions, name) THEN Some(Lookup(model.dimensions, name))
    ELSE None

-----------------------------------------------------------------------------
(* The registry's lookup methods.  Each returns [err, val]: the exception   *)
(* raised (NoError when it returns) and the returned record.                *)

Returned(v) == [err |-> NoError, val |-> v]

Raised(e) == [err |-> e, val |-> << >>]

KeyError(m, name) == Raise("KeyError", m, << name >>)

get_metric(reg, name) ==
    IF ~ HasKey(reg.metrics, name)
    THEN Raised(KeyError("Unknown metric", name))
    ELSE Returned(Lookup(reg.metrics, name))

get_semantic_model(reg, name) ==
    IF ~ HasKey(reg.semantic_models, name)
    THEN Raised(KeyError("Unknown semantic model", name))
    ELSE Returned(Lookup(reg.semantic_models, name))

\* dict.get(name) followed by "if not model_name": a missing key gives None,
\* and an empty model name is falsy as well
get_model_for_measure(reg, measure_name) ==
    IF \/ measure_name \notin DOMAIN reg.measure_to_model
       \/ Len(reg.measure_to_model[measure_name]) = 0
    THEN Raised(KeyError("Unknown measure", measure_name))
    ELSE Returned(Lookup(reg.semantic_models, reg.measure_to_model[measure_name]))

get_model_for_dimension(reg, dimension_name) ==
    IF \/ dimension_name \notin DOMAIN reg.dimension_to_model
       \/ Len(reg.dimension_to_model[dimension_name]) = 0
    THEN Raised(KeyError("Unknown dimension", dimension_name))
    ELSE Returned(Lookup(reg.semantic_models,
                         reg.dimension_to_model[dimension_name]))

get_measure(reg, measure_name) ==
    LET m == get_model_for_measure(reg, measure_name) IN
    IF IsError(m.err) THEN m
    ELSE LET measure == ModelGetMeasure(m.val, measure_name) IN
         IF IsNone(measure)
         THEN Raised(KeyError("Unknown measure", measure_name))
         ELSE Returned(Get(measure))

get_dimension(reg, dimension_name) ==
    LET m == get_model_for_dimension(reg, dimension_name) IN
    IF IsError(m.err) THEN m
    ELSE LET dimension == ModelGetDimension(m.val, dimension_name) IN
         IF IsNone(dimension)
         THEN Raised(KeyError("Unknown dimension", dimension_name))
         ELSE Returned(Get(dimension))

-----------------------------------------------------------------------------
(* SemanticModel.get_table_name *)

get_table_name(model) ==
    LET table == model.table IN
    IF StartsWith(table, << "r", "e", "f", "(" >>)
    THEN LET q1    == Find(table, "'")
             \* start: index after the first ', or after the first " when
             \* there is no ' (0 when there is neither)
             start == IF q1 = 0 THEN Find(table, "\"") ELSE q1
             r1    == RFind(table, "'")
             r2    == RFind(table, "\"")
             \* end (exclusive): the last ', else the last ", else -1, which
             \* as a slice bound means "all but the last character"
             stop  == IF r1 # 0 THEN r1 - 1
                      ELSE IF r2 # 0 THEN r2 - 1
                      ELSE Len(table) - 1
         IN SubSeq(table, start + 1, stop)
    ELSE table

-----------------------------------------------------------------------------
(* SQLCompiler._build_measure_expr *)

AGG_MAP(agg) ==
    CASE agg = "sum"            -> << "S", "U", "M" >>
      [] agg = "count"          -> << "C", "O", "U", "N", "T" >>
      [] agg = "count_distinct" -> << "C", "O", "U", "N", "T" >>
      [] agg = "avg"            -> << "A", "V", "G" >>
      [] agg = "min"            -> << "M", "I", "N" >>
      [] agg = "max"            -> << "M", "A", "X" >>

\* Python truthiness of an optional string: neither None nor ""
Truthy(o) == ~ IsNone(o) /\ Len(Get(o)) > 0

\* a faulty measure expression: with a filter, count_distinct loses DISTINCT
BuildMeasureExpr_NoDistinct(measure, filter_expr) ==
    LET agg_func == AGG_MAP(measure.agg)
        col_expr == measure.expr
    IN IF Truthy(filter_expr)
       THEN agg_func \o << "(", "C", "A", "S", "E", " ", "W", "H", "E", "N", " " >> \o Get(filter_expr)
              \o << " ", "T", "H", "E", "N", " " >> \o col_expr \o << " ", "E", "N", "D", ")" >>
       ELSE IF measure.agg = "count_distinct"
       THEN agg_func \o << "(", "D", "I", "S", "T", "I", "N", "C", "T", " " >> \o col_expr \o << ")" >>
       ELSE agg_func \o << "(" >> \o col_expr \o << ")" >>

BuildMeasureExpr(measure, filter_expr) ==
    LET agg_func == AGG_MAP(measure.agg)
        col_expr == measure.expr
    IN IF measure.agg = "count_distinct"
       THEN IF Truthy(filter_expr)
            THEN agg_func \o << "(", "D", "I", "S", "T", "I", "N", "C", "T", " ", "C", "A", "S", "E", " ", "W", "H", "E", "N", " " >> \o Get(filter_expr)
                   \o << " ", "T", "H", "E", "N", " " >> \o col_expr \o << " ", "E", "N", "D", ")" >>
            ELSE agg_func \o << "(", "D", "I", "S", "T", "I", "N", "C", "T", " " >> \o col_expr \o << ")" >>
       ELSE IF Truthy(filter_expr)
            THEN agg_func \o << "(", "C", "A", "S", "E", " ", "W", "H", "E", "N", " " >> \o Get(filter_expr)
                   \o << " ", "T", "H", "E", "N", " " >> \o col_expr \o << " ", "E", "N", "D", ")" >>
            ELSE agg_func \o << "(" >> \o col_expr \o << ")" >>

-----------------------------------------------------------------------------
(* ResolvedMetric and the recursive resolution of metrics *)

ResolvedMetric(n, e, m, f, agg, subs) ==
    [name |-> n, expr |-> e, model |-> m, filter |-> f,
     is_aggregate |-> agg, sub_metrics |-> subs]

\* d[k] = v on an insertion-ordered dict keyed by .name
DictPut(d, v) ==
    IF HasKey(d, v.name)
    THEN [d EXCEPT ![FirstIndex(d, v.name, 1)] = v]
    ELSE Append(d, v)

\* the substitution loop of _resolve_derived_metric over sub_metrics.items()
RECURSIVE Substitute(_, _, _)
Substitute(expr, subs, i) ==
    IF i > Len(subs) THEN expr
    ELSE Substitute(
           Replace(expr, subs[i].name, << "(" >> \o subs[i].expr \o << ")" >>),
           subs, i + 1)

ResolveSimpleMetric(reg, metric) ==
    LET params  == metric.type_params
        model   == get_model_for_measure(reg, params.measure)
        measure == get_measure(reg, params.measure)
    IN IF IsError(model.err) THEN model
       ELSE IF IsError(measure.err) THEN measure
       ELSE Returned(ResolvedMetric(metric.name,
                BuildMeasureExpr(measure.val, metric.filter),
                Some(model.val), metric.filter, TRUE, << >>))

ResolveCumulativeMetric(reg, metric) ==
    LET params  == metric.type_params
        model   == get_model_for_measure(reg, params.measure)
        measure == get_measure(reg, params.measure)
    IN IF IsError(model.err) THEN model
       ELSE IF IsError(measure.err) THEN measure
       ELSE Returned(ResolvedMetric(metric.name,
                << "S", "U", "M", "(" >> \o BuildMeasureExpr(measure.val, metric.filter)
                   \o << ")", " ", "O", "V", "E", "R", " ", "(", "O", "R", "D", "E", "R", " ", "B", "Y", " ", "1", ")" >>,
                Some(model.val), metric.filter, FALSE, << >>))

\* a faulty ratio expression: the denominator is a bare divisor
RatioExpr_Bare(num_expr, denom_expr) ==
    << "(" >> \o num_expr \o << ")", " ", "*", " ", "1", ".", "0", " ", "/", " " >> \o denom_expr

\* the expression text of a ratio metric
RatioExpr(num_expr, denom_expr) ==
    << "(" >> \o num_expr \o << ")", " ", "*", " ", "1", ".", "0", " ", "/", " ", "N", "U", "L", "L", "I", "F", "(" >> \o denom_expr \o << ",", " ", "0", ")" >>

RECURSIVE ResolveSingleMetric(_, _, _)
RECURSIVE ResolveRefs(_, _, _, _, _)

\* the first loop of _resolve_derived_metric over params.metrics, from
\* position i: [err, val], val the sub_metrics dict
ResolveRefs(reg, refs, i, subs, depth) ==
    IF i > Len(refs) THEN Returned(subs)
    ELSE LET ref_metric == get_metric(reg, refs[i]) IN
         IF IsError(ref_metric.err) THEN ref_metric
         ELSE LET r == ResolveSingleMetric(reg, ref_metric.val, depth) IN
              IF IsError(r.err) THEN r
              ELSE ResolveRefs(reg, refs, i + 1, DictPut(subs, r.val), depth)

\* a faulty _resolve_derived_metric that applies the metric's filter to the
\* substituted expression
ResolveDerivedMetric_Filtering(reg, metric, depth) ==
    LET params == metric.type_params
        subs   == ResolveRefs(reg, params.metrics, 1, << >>, depth)
    IN IF IsError(subs.err) THEN subs
       ELSE Returned(ResolvedMetric(metric.name,
                IF Truthy(metric.filter)
                THEN << "C", "A", "S", "E", " ", "W", "H", "E", "N", " " >> \o Get(metric.filter) \o << " ", "T", "H", "E", "N", " " >>
                       \o Substitute(params.expr, subs.val, 1) \o << " ", "E", "N", "D" >>
                ELSE Substitute(params.expr, subs.val, 1),
                IF Len(subs.val) > 0 THEN subs.val[1].model ELSE None,
                metric.filter, FALSE, subs.val))

ResolveDerivedMetric(reg, metric, depth) ==
    LET params == metric.type_params
        subs   == ResolveRefs(reg, params.metrics, 1, << >>, depth)
    IN IF IsError(subs.err) THEN subs
       ELSE Returned(ResolvedMetric(metric.name,
                Substitute(params.expr, subs.val, 1),
                IF Len(subs.val) > 0 THEN subs.val[1].model ELSE None,
                metric.filter, FALSE, subs.val))

\* a faulty _resolve_ratio_metric that resolves the ratio metric itself in
\* place of its numerator
ResolveRatioMetric_Reentrant(reg, metric, depth) ==
    LET num_resolved == ResolveSingleMetric(reg, metric, depth)
    IN IF IsError(num_resolved.err) THEN num_resolved
       ELSE Returned(ResolvedMetric(metric.name, num_resolved.val.expr,
                num_resolved.val.model, metric.filter, FALSE,
                << num_resolved.val >>))

ResolveRatioMetric(reg, metric, depth) ==
    LET params == metric.type_params
        numerator_metric   == get_metric(reg, params.numerator)
        denominator_metric == get_metric(reg, params.denominator)
    IN IF IsError(numerator_metric.err) THEN numerator_metric
       ELSE IF IsError(denominator_metric.err) THEN denominator_metric
       ELSE LET num_resolved == ResolveSingleMetric(reg, numerator_metric.val, depth)
            IN IF IsError(num_resolved.err) THEN num_resolved
               ELSE LET denom_resolved ==
                          ResolveSingleMetric(reg, denominator_metric.val, depth)
                    IN IF IsError(denom_resolved.err) THEN denom_resolved
                       ELSE Returned(ResolvedMetric(metric.name,
                                RatioExpr(num_resolved.val.expr,
                                          denom_resolved.val.expr),
                                num_resolved.val.model, metric.filter, FALSE,
                                DictPut(<< num_resolved.val >>,
                                        denom_resolved.val)))

\* _resolve_single_metric at recursion depth `depth`; the interpreter raises
\* RecursionError when the depth passes its limit
ResolveSingleMetric(reg, metric, depth) ==
    IF depth > MaxDepth
    THEN Raised(Raise("RecursionError", "maximum recursion depth exceeded", << >>))
    ELSE CASE metric.type = "simple"     -> ResolveSimpleMetric(reg, metric)
           [] metric.type = "derived"    -> ResolveDerivedMetric(reg, metric, depth + 1)
           [] metric.type = "ratio"      -> ResolveRatioMetric(reg, metric, depth + 1)
           [] metric.type = "cumulative" -> ResolveCumulativeMetric(reg, metric)
           [] OTHER -> Raised(Raise("ValueError", "Unknown metric type",
                                    << metric.name >>))

\* _resolve_metrics: the loop over the requested names, from position i
RECURSIVE ResolveMetrics(_, _, _, _)
ResolveMetrics(reg, metric_names, i, resolved) ==
    IF i > Len(metric_names) THEN Returned(resolved)
    ELSE LET metric == get_metric(reg, metric_names[i]) IN
         IF IsError(metric.err) THEN metric
         ELSE LET r == ResolveSingleMetric(reg, metric.val, 1) IN
              IF IsError(r.err) THEN r
              ELSE ResolveMetrics(reg, metric_names, i + 1,
                                  DictPut(resolved, r.val))

-----------------------------------------------------------------------------
(* MetricQuery (models/query.py) *)

MetricQuery(ms, ds, fs, grain, sd, ed, lim, ob) ==
    [metrics |-> ms, dimensions |-> ds, filters |-> fs, time_grain |-> grain,
     start_date |-> sd, end_date |-> ed, limit |-> lim, order_by |-> ob]

-----------------------------------------------------------------------------
(* Text of numbers and dates, as an f-string renders them *)

Digit(n) == << "0", "1", "2", "3", "4", "5", "6", "7", "8", "9" >>[n + 1]

RECURSIVE NatText(_)
NatText(n) == IF n < 10 THEN << Digit(n) >>
              ELSE NatText(n \div 10) \o << Digit(n % 10) >>

IntText(n) == IF n < 0 THEN << "-" >> \o NatText(0 - n) ELSE NatText(n)

\* n zero-padded on the left to width w
RECURSIVE Pad(_, _)
Pad(t, w) == IF Len(t) >= w THEN t ELSE Pad(<< "0" >> \o t, w)

\* str(date): ISO format YYYY-MM-DD
DateText(d) ==
    Pad(NatText(d.year), 4) \o << "-" >> \o Pad(NatText(d.month), 2)
        \o << "-" >> \o Pad(NatText(d.day), 2)

\* sep.join(parts)
RECURSIVE JoinFrom(_, _, _)
JoinFrom(parts, sep, i) ==
    IF i > Len(parts) THEN << >>
    ELSE IF i = Len(parts) THEN parts[i]
    ELSE parts[i] \o sep \o JoinFrom(parts, sep, i + 1)

Join(parts, sep) == JoinFrom(parts, sep, 1)

-----------------------------------------------------------------------------
(* SQLCompiler._get_required_tables *)

\* the tables of one resolved metric and of its direct sub-metrics
MetricTables(resolved) ==
    (IF IsNone(resolved.model) THEN {} ELSE { get_table_name(Get(resolved.model)) })
    \cup { get_table_name(Get(resolved.sub_metrics[j].model)) :
             j \in { k \in 1..Len(resolved.sub_metrics) :
                       ~ IsNone(resolved.sub_metrics[k].model) } }

\* the table of a requested dimension; none when the lookup raises KeyError
DimensionTables(reg, dim_name) ==
    LET model == get_model_for_dimension(reg, dim_name) IN
    IF IsError(model.err) THEN {} ELSE { get_table_name(model.val) }

GetRequiredTables(reg, resolved_metrics, dimensions) ==
    UNION { MetricTables(resolved_metrics[i]) : i \in 1..Len(resolved_metrics) }
    \cup UNION { DimensionTables(reg, dimensions[i]) : i \in 1..Len(dimensions) }

-----------------------------------------------------------------------------
(* SQLCompiler._build_dimension_expr, _find_time_dimension *)

BuildDimensionExpr(reg, dim_name, time_grain) ==
    LET dimension == get_dimension(reg, dim_name) IN
    IF IsError(dimension.err) THEN dim_name
    ELSE LET col_expr == IF Truthy(dimension.val.expr)
                         THEN Get(dimension.val.expr) ELSE dim_name
         IN IF dimension.val.type = "time" /\ Truthy(time_grain)
            THEN << "D", "A", "T", "E", "_", "T", "R", "U", "N", "C", "(", "'" >> \o Get(time_grain) \o << "'", ",", " " >> \o col_expr \o << ")" >>
            ELSE col_expr

\* the first requested dimension registered with type time; None when none
RECURSIVE FindTimeDimension(_, _, _)
FindTimeDimension(reg, dimensions, i) ==
    IF i > Len(dimensions) THEN None
    ELSE LET dim == get_dimension(reg, dimensions[i]) IN
         IF ~ IsError(dim.err) /\ dim.val.type = "time"
         THEN Some(dimensions[i])
         ELSE FindTimeDimension(reg, dimensions, i + 1)

-----------------------------------------------------------------------------
(* The clause builders *)

BuildSelectExprs(reg, resolved_metrics, query) ==
    [i \in 1..Len(query.dimensions) |->
        BuildDimensionExpr(reg, query.dimensions[i], query.time_grain)
          \o << " ", "A", "S", " " >> \o query.dimensions[i]]
    \o [i \in 1..Len(resolved_metrics) |->
        resolved_metrics[i].expr \o << " ", "A", "S", " " >> \o resolved_metrics[i].name]

\* the date bounds appended by _build_where_conditions
DateConditions(reg, query) ==
    IF IsNone(query.start_date) /\ IsNone(query.end_date) THEN << >>
    ELSE LET time_dim == FindTimeDimension(reg, query.dimensions, 1) IN
         IF ~ Truthy(time_dim) THEN << >>
         ELSE LET dim      == get_dimension(reg, Get(time_dim)).val
                  col_expr == IF Truthy(dim.expr) THEN Get(dim.expr)
                              ELSE Get(time_dim)
              IN (IF IsNone(query.start_date) THEN << >>
                  ELSE << col_expr \o << " ", ">", "=", " ", "'" >>
                            \o DateText(Get(query.start_date)) \o << "'" >> >>)
                 \o
                 (IF IsNone(query.end_date) THEN << >>
                  ELSE << col_expr \o << " ", "<", "=", " ", "'" >>
                            \o DateText(Get(query.end_date)) \o << "'" >> >>)

BuildWhereConditions(reg, query) == query.filters \o DateConditions(reg, query)

\* a faulty _build_group_by_exprs that passes no time grain
BuildGroupByExprs_NoGrain(reg, query) ==
    [i \in 1..Len(query.dimensions) |->
        BuildDimensionExpr(reg, query.dimensions[i], None)]

BuildGroupByExprs(reg, query) ==
    [i \in 1..Len(query.dimensions) |->
        BuildDimensionExpr(reg, query.dimensions[i], query.time_grain)]

\* a faulty _build_order_by_exprs that ignores query.order_by
BuildOrderByExprs_DimensionsOnly(reg, query) ==
    [i \in 1..Len(query.dimensions) |->
        BuildDimensionExpr(reg, query.dimensions[i], query.time_grain)]

BuildOrderByExprs(reg, query) ==
    IF Len(query.order_by) > 0 THEN query.order_by
    ELSE [i \in 1..Len(query.dimensions) |->
            BuildDimensionExpr(reg, query.dimensions[i], query.time_grain)]

\* Python truthiness of an optional int: neither None nor 0
TruthyInt(o) == ~ IsNone(o) /\ Get(o) # 0

AssembleQuery(select_exprs, from_clause, where_conditions, group_by_exprs, order_by_exprs, limit) ==
    Join(
      << << "S", "E", "L", "E", "C", "T", "\n", " ", " " >> \o Join(select_exprs, << ",", "\n", " ", " " >>) >>
      \o << << "F", "R", "O", "M", " " >> \o from_clause >>
      \o (IF Len(where_conditions) > 0
          THEN << << "W", "H", "E", "R", "E", " " >> \o Join(where_conditions, << " ", "A", "N", "D", " " >>) >> ELSE << >>)
      \o (IF Len(group_by_exprs) > 0
          THEN << << "G", "R", "O", "U", "P", " ", "B", "Y", " " >> \o Join(group_by_exprs, << ",", " " >>) >> ELSE << >>)
      \o (IF Len(order_by_exprs) > 0
          THEN << << "O", "R", "D", "E", "R", " ", "B", "Y", " " >> \o Join(order_by_exprs, << ",", " " >>) >> ELSE << >>)
      \o (IF TruthyInt(limit)
          THEN << << "L", "I", "M", "I", "T", " " >> \o IntText(Get(limit)) >> ELSE << >>),
      << "\n" >>)

-----------------------------------------------------------------------------
(* SQLCompiler.compile *)

\* an exception a step of compile caught and did not re-raise
Caught(where, type, name) == [in |-> where, type |-> type, name |-> name]

\* the KeyErrors _get_required_tables swallows: the requested dimensions
\* get_model_for_dimension does not find
CaughtInTables(reg, dimensions) ==
    { Caught("_get_required_tables", "KeyError", dimensions[i]) :
        i \in { k \in 1..Len(dimensions) :
                  IsError(get_model_for_dimension(reg, dimensions[k]).err) } }

\* the KeyErrors _build_dimension_expr swallows
CaughtInDimensionExpr(reg, dimensions) ==
    { Caught("_build_dimension_expr", "KeyError", dimensions[i]) :
        i \in { k \in 1..Len(dimensions) :
                  IsError(get_dimension(reg, dimensions[k]).err) } }

\* the KeyErrors _find_time_dimension swallows: the unknown dimensions it
\* meets before it returns
CaughtInFindTime(reg, query) ==
    IF IsNone(query.start_date) /\ IsNone(query.end_date) THEN {}
    ELSE LET time_dim == FindTimeDimension(reg, query.dimensions, 1)
             last == IF IsNone(time_dim) THEN Len(query.dimensions)
                     ELSE FirstIndex([i \in 1..Len(query.dimensions) |->
                                         [name |-> query.dimensions[i]]],
                                     Get(time_dim), 1)
         IN { Caught("_find_time_dimension", "KeyError", query.dimensions[i]) :
                i \in { k \in 1..last :
                          IsError(get_dimension(reg, query.dimensions[k]).err) } }

\* a faulty _format_sql without the try/except: the parser's exception
\* leaves the function
FormatSql_Propagating(sql, parses) ==
    IF parses
    THEN [err |-> NoError, val |-> sql, formatted |-> TRUE, caught |-> {}]
    ELSE [err |-> Raise("ParseError", "Invalid expression", << >>),
          val |-> << >>, formatted |-> FALSE, caught |-> {}]

\* _format_sql: `parses` tells whether sqlglot parsed and rendered the text.
\* val is the assembled text; formatted tells that what is returned is
\* sqlglot's rendering of it, and not the text itself.
FormatSql(sql, parses) ==
    IF parses
    THEN [err |-> NoError, val |-> sql, formatted |-> TRUE, caught |-> {}]
    ELSE [err |-> NoError, val |-> sql, formatted |-> FALSE,
          caught |-> { Caught("_format_sql", "Exception", << >>) }]

\* _build_from_clause returns next(iter(tables)): for a set of str the first
\* element in iteration order is any element of it (string hashing is
\* randomised per process), here the element `first`
BuildFromClause(tables, first) ==
    IF tables = {}
    THEN Raised(Raise("ValueError", "No tables found for query", << >>))
    ELSE Returned(first)

\* the frame of a compile call: where it is, its argument and its locals
NewFrame(query) ==
    [pc |-> "resolve", query |-> query, err |-> NoError,
     resolved_metrics |-> << >>, tables |-> {}, select_exprs |-> << >>,
     from_clause |-> << >>, where_conditions |-> << >>,
     group_by_exprs |-> << >>, order_by_exprs |-> << >>,
     sql |-> << >>, formatted |-> FALSE, caught |-> {}]

Finished(f) == f.pc \in {"returned", "raised"}

\* one statement of compile in frame f, with `first` the set element
\* iteration yields first and `parses` the formatter's outcome
CompileStep(reg, f, first, parses) ==
    CASE f.pc = "resolve" ->
           LET r == ResolveMetrics(reg, f.query.metrics, 1, << >>) IN
           IF IsError(r.err) THEN [f EXCEPT !.pc = "raised", !.err = r.err]
           ELSE [f EXCEPT !.pc = "tables", !.resolved_metrics = r.val]
      [] f.pc = "tables" ->
           [f EXCEPT !.pc = "select",
                     !.tables = GetRequiredTables(reg, f.resolved_metrics, f.query.dimensions),
                     !.caught = @ \cup CaughtInTables(reg, f.query.dimensions)]
      [] f.pc = "select" ->
           [f EXCEPT !.pc = "from",
                     !.select_exprs = BuildSelectExprs(reg, f.resolved_metrics, f.query),
                     !.caught = @ \cup CaughtInDimensionExpr(reg, f.query.dimensions)]
      [] f.pc = "from" ->
           LET r == BuildFromClause(f.tables, first) IN
           IF IsError(r.err) THEN [f EXCEPT !.pc = "raised", !.err = r.err]
           ELSE [f EXCEPT !.pc = "where", !.from_clause = r.val]
      [] f.pc = "where" ->
           [f EXCEPT !.pc = "group_by",
                     !.where_conditions = BuildWhereConditions(reg, f.query),
                     !.caught = @ \cup CaughtInFindTime(reg, f.query)]
      [] f.pc = "group_by" ->
           [f EXCEPT !.pc = "order_by",
                     !.group_by_exprs = BuildGroupByExprs(reg, f.query)]
      [] f.pc = "order_by" ->
           [f EXCEPT !.pc = "assemble",
                     !.order_by_exprs = BuildOrderByExprs(reg, f.query)]
      [] f.pc = "assemble" ->
           [f EXCEPT !.pc = "format",
                     !.sql = AssembleQuery(f.select_exprs, f.from_clause,
                                           f.where_conditions, f.group_by_exprs,
                                           f.order_by_exprs, f.query.limit)]
      [] f.pc = "format" ->
           LET r == FormatSql(f.sql, parses) IN
           IF IsError(r.err)
           THEN [f EXCEPT !.pc = "raised", !.err = r.err, !.sql = << >>]
           ELSE [f EXCEPT !.pc = "returned", !.sql = r.val,
                          !.formatted = r.formatted,
                          !.caught = @ \cup r.caught]
      [] OTHER -> f

\* the statements of compile from frame f to its return or raise
RECURSIVE RunCompile(_, _, _, _)
RunCompile(reg, f, first, parses) ==
    IF Finished(f) THEN f
    ELSE RunCompile(reg, CompileStep(reg, f, first, parses), first, parses)

\* what a compile call leaves: the exception it raised, the text it returned,
\* the exceptions it caught on the way and its local values
Compiled(f) ==
    [err |-> f.err, val |-> f.sql, formatted |-> f.formatted,
     caught |-> f.caught,
     locals |-> [resolved_metrics |-> f.resolved_metrics, tables |-> f.tables,
                 select_exprs |-> f.select_exprs,
                 from_clause |-> f.from_clause,
                 where_conditions |-> f.where_conditions,
                 group_by_exprs |-> f.group_by_exprs,
                 order_by_exprs |-> f.order_by_exprs]]

\* compile(query)
Compile(reg, query, first, fmt) ==
    Compiled(RunCompile(reg, NewFrame(query), first, fmt))

\* the tables compile(query) collects; the FROM clause is one of them
QueryTables(reg, query) ==
    LET resolved == ResolveMetrics(reg, query.metrics, 1, << >>) IN
    IF IsError(resolved.err) THEN {}
    ELSE GetRequiredTables(reg, resolved.val, query.dimensions)

\* a query of metrics and dimensions only
Plain(ms, ds) == MetricQuery(ms, ds, << >>, None, None, None, None, << >>)

-----------------------------------------------------------------------------
(* The definitions the directories are drawn from.  Model and measure names *)
(* are upper-case letters, metric and dimension names lower-case.           *)

M_orders ==
    SemanticModel(<< "O" >>, << "o" >>,
        << Measure(<< "A" >>, "sum", << "a" >>), Measure(<< "C" >>, "count", << "i" >>) >>,
        << Dimension(<< "d" >>, "time", None) >>)

M_users ==
    SemanticModel(<< "U" >>, << "r", "e", "f", "(", "'", "u", "'", ")" >>,
        << Measure(<< "K" >>, "count_distinct", << "k" >>) >>,
        << Dimension(<< "g" >>, "categorical", Some(<< "h" >>)) >>)

\* a second model named O, on another table
M_orders2 == SemanticModel(<< "O" >>, << "p" >>, << >>, << >>)

\* a model that declares measure A twice, which M_orders declares too
M_returns == SemanticModel(<< "R" >>, << "o" >>, << Measure(<< "A" >>, "avg", << "b" >>), Measure(<< "A" >>, "min", << "b" >>) >>, << >>)

\* a model that declares dimension d, which M_orders declares too
M_regions ==
    SemanticModel(<< "G" >>, << "r", "e", "f", "(", "\"", "u", "\"", ")" >>, << >>, << Dimension(<< "d" >>, "categorical", None) >>)

\* a model whose name is the empty string
M_anon ==
    SemanticModel(<< >>, << "o" >>, << Measure(<< "N" >>, "max", << "a" >>) >>,
        << Dimension(<< "e" >>, "categorical", Some(<< >>)),
           Dimension(<< "j" >>, "time", Some(<< "i" >>)) >>)

Simple(n, measure, f) == MetricData(n, "simple", [measure |-> measure], f)

Cumulative(n, measure, f) == MetricData(n, "cumulative", [measure |-> measure], f)

Derived(n, e, ms) == MetricData(n, "derived", [expr |-> e, metrics |-> ms], None)

Ratio(n, num, den) ==
    MetricData(n, "ratio", [numerator |-> num, denominator |-> den], None)

\* the metric data md with filter f
Filtered(md, f) == [md EXCEPT !.filter = Some(f)]

FileOf(sms, ms) == [empty |-> FALSE, semantic_models |-> sms, metrics |-> ms]

\* an empty YAML document: safe_load gives None
F_empty == [empty |-> TRUE, semantic_models |-> << >>, metrics |-> << >>]

F_orders ==
    FileOf(<< M_orders >>,
        << Simple(<< "r" >>, << "A" >>, Some(<< "s" >>)),
           Simple(<< "r", "x" >>, << "C" >>, None),
           Cumulative(<< "c" >>, << "A" >>, Some(<< >>)),
           Filtered(Ratio(<< "q" >>, << "r" >>, << "r", "x" >>), << "t" >>),
           Filtered(Derived(<< "v" >>, << "r", "x", "/", "r" >>, << << "r" >>, << "r", "x" >> >>), << "t" >>) >>)

\* w refers to q of F_orders; p to r of F_orders and to n, i to p, and o to
\* rx of F_orders and to i
F_users ==
    FileOf(<< M_users >>,
        << Simple(<< "n" >>, << "K" >>, Some(<< "s" >>)),
           Derived(<< "w" >>, << "q", "+", "n" >>, << << "q" >>, << "n" >> >>),
           Ratio(<< "p" >>, << "r" >>, << "n" >>),
           Derived(<< "i" >>, << "p", "*", "2" >>, << << "p" >> >>),
           Derived(<< "o" >>, << "r", "x", "-", "i" >>, << << "r", "x" >>, << "i" >> >>) >>)

\* the same metric name twice in one file, after a model named O
F_twice ==
    FileOf(<< M_orders2 >>,
        << Simple(<< "t" >>, << "A" >>, None), Simple(<< "t" >>, << "C" >>, None) >>)

F_returns == FileOf(<< M_returns >>, << >>)

F_regions == FileOf(<< M_regions >>, << >>)

\* u refers to z and then to itself
F_anon ==
    FileOf(<< M_anon >>,
        << Simple(<< "z" >>, << "N" >>, None), Derived(<< "u" >>, << "z", "+", "u" >>, << << "z" >>, << "u" >> >>) >>)

\* one unresolved reference each
F_bad_simple == FileOf(<< >>, << Simple(<< "b" >>, << "Z" >>, None) >>)

F_bad_cumulative == FileOf(<< >>, << Cumulative(<< "b" >>, << "Z" >>, None) >>)

F_bad_derived == FileOf(<< >>, << Derived(<< "b" >>, << "b", "+", "y" >>, << << "b" >>, << "y" >> >>) >>)

F_bad_numerator == FileOf(<< >>, << Ratio(<< "b" >>, << "y" >>, << "b" >>) >>)

F_bad_denominator == FileOf(<< >>, << Ratio(<< "b" >>, << "b" >>, << "y" >>) >>)

\* metrics that load and do not compile: l refers to itself, k to nothing,
\* h and m to each other
F_cycle ==
    FileOf(<< >>,
        << Derived(<< "l" >>, << "l" >>, << << "l" >> >>), Derived(<< "k" >>, << "1" >>, << >>),
           Derived(<< "h" >>, << "m", "+", "1" >>, << << "m" >> >>), Ratio(<< "m" >>, << "k" >>, << "h" >>) >>)

\* a metric of no known type
F_bogus == FileOf(<< >>, << MetricData(<< "b" >>, "bogus", [measure |-> << "A" >>], None) >>)

Files ==
    { F_empty, F_orders, F_users, F_twice, F_returns,
      F_regions, F_anon, F_bad_simple, F_bad_cumulative, F_bad_derived,
      F_bad_numerator, F_bad_denominator, F_bogus, F_cycle }

Injective(f) == \A i, j \in DOMAIN f : f[i] = f[j] => i = j

\* a directory: missing, or holding up to MaxFiles distinct files in glob order
Directories ==
    { [exists |-> FALSE, files |-> << >>] }
    \cup { [exists |-> TRUE, files |-> f] :
             f \in { g \in UNION { [1..n -> Files] : n \in 0..MaxFiles } :
                       Injective(g) } }

-----------------------------------------------------------------------------
(* The names asked of the lookups and the queries compiled *)

ModelNames == { << "O" >>, << "U" >>, << "R" >>, << "G" >>, << >>, << "X" >> }

MeasureNames == { << "A" >>, << "C" >>, << "K" >>, << "N" >>, << "Z" >> }

DimensionNames == { << "d" >>, << "g" >>, << "e" >>, << "j" >>, << "x" >> }

MetricNames ==
    { << "r" >>, << "r", "x" >>, << "c" >>, << "q" >>, << "v" >>, << "n" >>, << "w" >>, << "z" >>, << "t" >>, << "b" >>, << "y" >>,
      << "l" >>, << "k" >>, << "h" >>, << "m" >>, << "u" >>, << "p" >>, << "i" >>, << "o" >> }

Month == << "m", "o", "n", "t", "h" >>

Jan5 == [year |-> 2024, month |-> 1, day |-> 5]

Dec31 == [year |-> 2024, month |-> 12, day |-> 31]

Queries ==
    { Plain(<< m >>, ds) : m \in MetricNames, ds \in { << >>, << << "d" >> >>, << << "g" >> >> } }
    \cup { Plain(ms, << >>) :
             ms \in { << << "r" >>, << "n" >> >>, << << "n" >>, << "r" >> >>, << << "r" >>, << "r", "x" >> >>,
                      << << "r" >>, << "r" >> >>, << >> } }
    \cup { MetricQuery(<< << "r" >> >>, ds, << << "f" >> >>, Some(Month), Some(Jan5),
                       Some(Dec31), Some(2), << >>) :
             ds \in { << >>, << << "x" >>, << "d" >> >>, << << "g" >> >>, << << "j" >> >>, << << "j" >>, << "d" >> >>,
                      << << "e" >> >>, << << "d" >>, << "d" >> >> } }
    \cup { MetricQuery(<< << "n" >> >>, << << "g" >> >>, << << "f" >>, << "g" >> >>, None, None,
                       Some(Jan5), lim, << << "o" >> >>) :
             lim \in { Some(0), Some(0 - 1), Some(10) } }
    \* an empty time grain, and explicit ordering columns without dimensions
    \cup { MetricQuery(<< << "r" >> >>, << << "d" >> >>, << >>, Some(<< >>), Some(Jan5), None, None, << >>),
           MetricQuery(<< << "r" >> >>, << >>, << >>, None, None, None, None, << << "o" >>, << "d" >> >>) }

-----------------------------------------------------------------------------
(* Set iteration order, MetricStore.validate, Metric(...) *)

\* the table names of the models above
TableNames == { get_table_name(m) : m \in { M_orders, M_users, M_orders2, M_returns, M_regions, M_anon } }

\* the orders in which a process may iterate a set of these names
HashOrders ==
    { s \in [1..Cardinality(TableNames) -> TableNames] : Injective(s) }

\* the iteration orders of the table names of a registry's models
RegistryOrders(reg) ==
    LET names == { get_table_name(m) : m \in Range(reg.semantic_models) } IN
    { s \in [1..Cardinality(names) -> names] : Injective(s) }

\* next(iter(tables)) under an iteration order; << >> for the empty set
FirstIn(order, tables) ==
    IF tables = {} THEN << >>
    ELSE order[CHOOSE i \in 1..Len(order) :
                 /\ order[i] \in tables
                 /\ \A j \in 1..(i - 1) : order[j] \notin tables]

\* f"Metric '{metric.name}': {e}"
ValidateMessage(name, e) == [metric |-> name, error |-> e]

\* a faulty loop: the first failure ends the validation
RECURSIVE StoreValidateFrom_StopAtFirst(_, _, _, _)
StoreValidateFrom_StopAtFirst(reg, order, i, errors) ==
    IF i > Len(reg.metrics) THEN Returned(errors)
    ELSE LET query == Plain(<< reg.metrics[i].name >>, << >>)
             out   == Compile(reg, query, FirstIn(order, QueryTables(reg, query)), TRUE)
         IN IF IsError(out.err)
            THEN Returned(Append(errors, ValidateMessage(reg.metrics[i].name, out.err)))
            ELSE StoreValidateFrom_StopAtFirst(reg, order, i + 1, errors)

\* the loop of validate over registry.metrics.values(), from position i,
\* with the messages collected so far.  Whether a compile raises does not
\* depend on the formatter, which never raises out of _format_sql.
RECURSIVE StoreValidateFrom(_, _, _, _)
StoreValidateFrom(reg, order, i, errors) ==
    IF i > Len(reg.metrics) THEN Returned(errors)
    ELSE LET query == Plain(<< reg.metrics[i].name >>, << >>)
             out   == Compile(reg, query, FirstIn(order, QueryTables(reg, query)), TRUE)
         IN StoreValidateFrom(reg, order, i + 1,
               IF IsError(out.err)
               THEN Append(errors, ValidateMessage(reg.metrics[i].name, out.err))
               ELSE errors)

\* MetricStore.validate
StoreValidate(reg, order) == StoreValidateFrom(reg, order, 1, << >>)

\* an instance of a params class
SampleParams(cls) ==
    MakeParams(cls, [measure |-> << "A" >>, expr |-> << "r" >>, metrics |-> << << "r" >> >>,
                     numerator |-> << "r" >>, denominator |-> << "r" >>])

ParamsClasses ==
    { "SimpleMetricParams", "DerivedMetricParams", "RatioMetricParams",
      "CumulativeMetricParams" }

-----------------------------------------------------------------------------
(* The state machine *)

\* the outcome of a call that its caller has not taken yet: the call's
\* name, its argument and what it returned or raised
Call(op, arg, out) == [op |-> op, arg |-> arg, out |-> out]

\* no call is outstanding
Idle == Call("none", << >>, Returned(<< >>))

Init ==
    /\ directory \in Directories
    /\ registry = EmptyRegistry
    /\ loads = 0
    /\ status = "new"
    /\ load_error = NoError
    /\ result = Idle
    /\ frames = << >>
    /\ hash_order = << >>
    /\ executor = None
    /\ duckdb = NoConnections

\* registry.load_directory(directory)
Load ==
    /\ result = Idle
    /\ loads < MaxLoads
    /\ LET s == LoadDirectory(registry, directory) IN
        /\ registry' = s.reg
        /\ load_error' = s.err
        /\ status' = IF IsError(s.err) THEN "failed" ELSE "loaded"
        /\ result' = Call("load_directory", << >>,
                          IF IsError(s.err) THEN Raised(s.err) ELSE Returned(<< >>))
    /\ loads' = loads + 1
    /\ UNCHANGED <<directory, frames, hash_order, executor, duckdb>>

\* a faulty get_metric: the entry is popped from the metric map
GetMetric_Popping ==
    /\ result = Idle
    /\ \E name \in MetricNames :
         /\ result' = Call("get_metric", name, get_metric(registry, name))
         /\ registry' = [registry EXCEPT
                           !.metrics = SelectSeq(@, LAMBDA m : m.name # name)]
    /\ UNCHANGED <<directory, loads, status, load_error, frames, hash_order, executor, duckdb>>

GetMetric ==
    /\ result = Idle
    /\ \E name \in MetricNames :
         result' = Call("get_metric", name, get_metric(registry, name))
    /\ UNCHANGED <<directory, registry, loads, status, load_error, frames, hash_order, executor, duckdb>>

GetSemanticModel ==
    /\ result = Idle
    /\ \E name \in ModelNames :
         result' = Call("get_semantic_model", name, get_semantic_model(registry, name))
    /\ UNCHANGED <<directory, registry, loads, status, load_error, frames, hash_order, executor, duckdb>>

GetModelForMeasure ==
    /\ result = Idle
    /\ \E name \in MeasureNames :
         result' = Call("get_model_for_measure", name,
                        get_model_for_measure(registry, name))
    /\ UNCHANGED <<directory, registry, loads, status, load_error, frames, hash_order, executor, duckdb>>

GetModelForDimension ==
    /\ result = Idle
    /\ \E name \in DimensionNames :
         result' = Call("get_model_for_dimension", name,
                        get_model_for_dimension(registry, name))
    /\ UNCHANGED <<directory, registry, loads, status, load_error, frames, hash_order, executor, duckdb>>

GetMeasure ==
    /\ result = Idle
    /\ \E name \in MeasureNames :
         result' = Call("get_measure", name, get_measure(registry, name))
    /\ UNCHANGED <<directory, registry, loads, status, load_error, frames, hash_order, executor, duckdb>>

GetDimension ==
    /\ result = Idle
    /\ \E name \in DimensionNames :
         result' = Call("get_dimension", name, get_dimension(registry, name))
    /\ UNCHANGED <<directory, registry, loads, status, load_error, frames, hash_order, executor, duckdb>>

\* SQLCompiler(registry).compile(query)
CompileQuery ==
    /\ result = Idle
    /\ \E query \in Queries, fmt \in BOOLEAN :
         \E first \in QueryTables(registry, query) \cup { << >> } :
            /\ first = << >> => QueryTables(registry, query) = {}
            /\ result' = Call("compile", query, Compile(registry, query, first, fmt))
    /\ UNCHANGED <<directory, registry, loads, status, load_error, frames, hash_order, executor, duckdb>>

\* store.validate() on a store whose registry loaded
Validate ==
    /\ result = Idle
    /\ status = "loaded"
    /\ \E order \in HashOrders :
         result' = Call("validate", << >>, StoreValidate(registry, order))
    /\ UNCHANGED <<directory, registry, loads, status, load_error, frames, hash_order, executor, duckdb>>

\* Metric(name=..., type=..., type_params=<an instance of a params class>)
ConstructMetric ==
    /\ result = Idle
    /\ \E type \in MetricTypeLiteral \cup {"bogus"}, cls \in ParamsClasses :
         result' = Call("Metric", [type |-> type, class |-> cls],
                        LET m == NewMetric(<< "m" >>, type, SampleParams(cls), None)
                        IN [err |-> m.err, val |-> m.metric])
    /\ UNCHANGED <<directory, registry, loads, status, load_error, frames, hash_order, executor, duckdb>>

\* the caller takes the outcome of its call and goes on
Return ==
    /\ result # Idle
    /\ result' = Idle
    /\ UNCHANGED <<directory, registry, loads, status, load_error, frames, hash_order, executor, duckdb>>

Next ==
    \/ Load
    \/ GetMetric
    \/ GetSemanticModel
    \/ GetModelForMeasure
    \/ GetModelForDimension
    \/ GetMeasure
    \/ GetDimension
    \/ CompileQuery
    \/ Validate
    \/ ConstructMetric
    \/ Return

Spec == Init /\ [][Next]_vars

-----------------------------------------------------------------------------
(* Properties of the registry load *)

\* the measure names (dimension names) a model declares
DeclaredMeasures(model) == { model.measures[i].name : i \in 1..Len(model.measures) }

DeclaredDimensions(model) ==
    { model.dimensions[i].name : i \in 1..Len(model.dimensions) }

\* the measure names some registered model declares
RegisteredMeasures(reg) ==
    UNION { DeclaredMeasures(reg.semantic_models[i]) : i \in 1..Len(reg.semantic_models) }

RegisteredDimensions(reg) ==
    UNION { DeclaredDimensions(reg.semantic_models[i]) :
              i \in 1..Len(reg.semantic_models) }

\* every name a metric refers to exists in the registry
ReferencesResolve(reg, metric) ==
    LET p == metric.type_params IN
    CASE metric.type \in {"simple", "cumulative"} ->
           p.measure \in RegisteredMeasures(reg)
      [] metric.type = "derived" ->
           \A j \in 1..Len(p.metrics) : p.metrics[j] \in Keys(reg.metrics)
      [] metric.type = "ratio" ->
           p.numerator \in Keys(reg.metrics) /\ p.denominator \in Keys(reg.metrics)

MetricTypes(reg) == { reg.metrics[i].type : i \in 1..Len(reg.metrics) }

\* C1: a load that returns without raising leaves no metric with an
\* unresolved reference: every simple or cumulative metric names a measure
\* some registered model declares, every derived metric lists registered
\* metrics only, and every ratio metric has a registered numerator and
\* denominator.
C1_LoadedReferencesResolve ==
    status = "loaded" =>
        \A i \in 1..Len(registry.metrics) :
            ReferencesResolve(registry, registry.metrics[i])

\* a successful load of metrics of all four types
C1_Witness ==
    /\ status = "loaded"
    /\ MetricTypes(registry) = {"simple", "derived", "ratio", "cumulative"}

\* C2: after a first load that failed the registry holds nothing, and every
\* lookup and compile on it raises.
C2_NoPartialRegistry ==
    (status = "failed" /\ loads = 1) =>
        /\ registry = EmptyRegistry
        /\ result.op \notin {"none", "load_directory"} => IsError(result.out.err)

\* the entries of the files in the order load_directory meets them: per
\* file, its semantic models and then its metrics
RECURSIVE Entries(_, _)
Entries(files, i) ==
    IF i > Len(files) THEN << >>
    ELSE (IF files[i].empty THEN << >>
          ELSE [j \in 1..Len(files[i].semantic_models) |->
                   [kind |-> "model", def |-> files[i].semantic_models[j]]]
               \o [j \in 1..Len(files[i].metrics) |->
                   [kind |-> "metric", def |-> files[i].metrics[j]]])
         \o Entries(files, i + 1)

\* entry k has the name of an earlier entry of its kind
Collides(es, k) ==
    \E j \in 1..(k - 1) : es[j].kind = es[k].kind /\ es[j].def.name = es[k].def.name

\* entry k is a metric that does not parse
Unparsed(es, k) == es[k].kind = "metric" /\ IsError(ParseMetric(es[k].def).err)

\* the first entry at which reading the files stops, 0 when there is none
FirstStop(es) ==
    LET stops == { k \in 1..Len(es) : Collides(es, k) \/ Unparsed(es, k) } IN
    IF stops = {} THEN 0
    ELSE CHOOSE k \in stops : \A m \in stops : k <= m

\* the definitions of one kind among the first n entries, in order
RECURSIVE Before(_, _, _, _)
Before(es, kind, n, i) ==
    IF i > n THEN << >>
    ELSE (IF es[i].kind = kind THEN << es[i].def >> ELSE << >>)
         \o Before(es, kind, n, i + 1)

ParsedAll(mds) == [i \in 1..Len(mds) |-> ParseMetric(mds[i]).metric]

\* C7: in a first load, when the first entry that stops the reading of the
\* files parses and has the name of an earlier entry of its kind, whether of
\* the same file or of an earlier one, the load fails with
\* the duplicate-model (duplicate-metric) error naming it, and the maps hold
\* exactly the entries read before it, each under its first definition.
C7_DuplicateFailsLoad ==
    (loads = 1 /\ directory.exists) =>
        LET es == Entries(directory.files, 1)
            k  == FirstStop(es)
        IN (k # 0 /\ Collides(es, k) /\ ~ Unparsed(es, k)) =>
              /\ status = "failed"
              /\ load_error.type = "ValueError"
              /\ load_error.msg = (IF es[k].kind = "model"
                                   THEN "Duplicate semantic model"
                                   ELSE "Duplicate metric")
              /\ load_error.names = << es[k].def.name >>
              /\ registry.semantic_models = Before(es, "model", k - 1, 1)
              /\ registry.metrics = ParsedAll(Before(es, "metric", k - 1, 1))

\* a load of two files stopped by a metric name the first file defined
\* otherwise
C7_Witness ==
    /\ loads = 1
    /\ status = "failed"
    /\ load_error.msg = "Duplicate metric"
    /\ Len(directory.files) = 2
    /\ HasKey(ParsedAll(directory.files[1].metrics), load_error.names[1])
    /\ \E j \in 1..Len(directory.files[2].metrics) :
          /\ directory.files[2].metrics[j].name = load_error.names[1]
          /\ ParseMetric(directory.files[2].metrics[j]).metric
               # Lookup(registry.metrics, load_error.names[1])

\* the positions of the entries of that name in a list of measures or
\* dimensions
Declarations(entries, name) == { i \in 1..Len(entries) : entries[i].name = name }

\* C8: after a successful load no measure name and no dimension name is
\* declared by two registered models, and a duplicate-measure-name
\* (duplicate-dimension-name) error names a measure (dimension) that two
\* different registered models declare, or that the one registered model it
\* names declares twice.
C8_UniqueOwner ==
    /\ status = "loaded" =>
          \A i, j \in 1..Len(registry.semantic_models) :
              i # j =>
                /\ DeclaredMeasures(registry.semantic_models[i])
                     \cap DeclaredMeasures(registry.semantic_models[j]) = {}
                /\ DeclaredDimensions(registry.semantic_models[i])
                     \cap DeclaredDimensions(registry.semantic_models[j]) = {}
    /\ (loads = 1 /\ load_error.msg = "Duplicate measure name") =>
          /\ \A n \in { load_error.names[2], load_error.names[3] } :
                /\ HasKey(registry.semantic_models, n)
                /\ load_error.names[1]
                     \in DeclaredMeasures(Lookup(registry.semantic_models, n))
          /\ load_error.names[2] = load_error.names[3] =>
                Cardinality(Declarations(
                    Lookup(registry.semantic_models, load_error.names[2]).measures,
                    load_error.names[1])) > 1
    /\ (loads = 1 /\ load_error.msg = "Duplicate dimension name") =>
          /\ \A n \in { load_error.names[2], load_error.names[3] } :
                /\ HasKey(registry.semantic_models, n)
                /\ load_error.names[1]
                     \in DeclaredDimensions(Lookup(registry.semantic_models, n))
          /\ load_error.names[2] = load_error.names[3] =>
                Cardinality(Declarations(
                    Lookup(registry.semantic_models, load_error.names[2]).dimensions,
                    load_error.names[1])) > 1

\* a successful load of two models that each declare measures and dimensions
C8_Witness ==
    /\ status = "loaded"
    /\ Len(registry.semantic_models) = 2
    /\ \A i \in 1..2 :
          /\ DeclaredMeasures(registry.semantic_models[i]) # {}
          /\ DeclaredDimensions(registry.semantic_models[i]) # {}

\* the orders in which the files of a directory can be processed
Orders(files) ==
    { [i \in 1..Len(files) |-> files[p[i]]] :
        p \in { q \in [1..Len(files) -> 1..Len(files)] : Injective(q) } }

\* C9: a first load ends the same way under every order of the files: it
\* succeeds under all or fails under all, on success with the same maps and
\* indices, on failure with the same kind of error.
C9_OrderIndependent ==
    (loads = 1 /\ directory.exists) =>
        \A files \in Orders(directory.files) :
            LET other == LoadDirectory(EmptyRegistry,
                                       [exists |-> TRUE, files |-> files])
            IN /\ IsError(other.err) <=> status = "failed"
               /\ status = "failed" =>
                     /\ other.err.type = load_error.type
                     /\ other.err.msg = load_error.msg
               /\ status = "loaded" =>
                     /\ Range(other.reg.semantic_models) = Range(registry.semantic_models)
                     /\ Range(other.reg.metrics) = Range(registry.metrics)
                     /\ other.reg.measure_to_model = registry.measure_to_model
                     /\ other.reg.dimension_to_model = registry.dimension_to_model

-----------------------------------------------------------------------------
(* Properties of the lookups *)

Lookups ==
    { "get_metric", "get_semantic_model", "get_measure", "get_dimension",
      "get_model_for_measure", "get_model_for_dimension" }

\* the records registered under a name, for each lookup
RegisteredUnder(reg, op, name) ==
    CASE op = "get_metric" ->
           { m \in Range(reg.metrics) : m.name = name }
      [] op = "get_semantic_model" ->
           { m \in Range(reg.semantic_models) : m.name = name }
      [] op = "get_measure" ->
           UNION { { x \in Range(m.measures) : x.name = name } :
                     m \in Range(reg.semantic_models) }
      [] op = "get_dimension" ->
           UNION { { x \in Range(m.dimensions) : x.name = name } :
                     m \in Range(reg.semantic_models) }
      [] op = "get_model_for_measure" ->
           { m \in Range(reg.semantic_models) : name \in DeclaredMeasures(m) }
      [] op = "get_model_for_dimension" ->
           { m \in Range(reg.semantic_models) : name \in DeclaredDimensions(m) }

\* C10: on a loaded registry a lookup returns the record registered under
\* the requested name when there is one, and otherwise raises a KeyError
\* that carries the requested name.
C10_LookupFound ==
    (status = "loaded" /\ result.op \in Lookups) =>
        LET found == RegisteredUnder(registry, result.op, result.arg) IN
        IF found # {}
        THEN ~ IsError(result.out.err) /\ result.out.val \in found
        ELSE /\ result.out.err.type = "KeyError"
             /\ result.out.err.names = << result.arg >>

-----------------------------------------------------------------------------
(* Properties of compile *)

\* every ResolvedMetric of a resolved_metrics dict, sub-metrics included
RECURSIVE AllResolved(_)
AllResolved(rms) ==
    UNION { { rms[i] } \cup AllResolved(rms[i].sub_metrics) : i \in 1..Len(rms) }

\* the ResolvedMetric values the last compile call built
Built == AllResolved(result.out.locals.resolved_metrics)

\* the registry's definition of a resolved metric
Definition(rm) == Lookup(registry.metrics, rm.name)

\* C3: a compile whose required tables are more than one raises.
C3_MultiTableFails ==
    (result.op = "compile" /\ Cardinality(result.out.locals.tables) > 1) =>
        IsError(result.out.err)

IdentChars ==
    { "a", "b", "c", "d", "e", "f", "g", "h", "i", "j", "k", "l", "m", "n", "o", "p", "q", "r", "s", "t", "u", "v", "w", "x", "y", "z",
      "A", "B", "C", "D", "E", "F", "G", "H", "I", "J", "K", "L", "M", "N", "O", "P", "Q", "R", "S", "T", "U", "V", "W", "X", "Y", "Z",
      "0", "1", "2", "3", "4", "5", "6", "7", "8", "9", "_" }

\* the end of the run of identifier characters that starts at i
RECURSIVE RunEnd(_, _)
RunEnd(s, i) ==
    IF i < Len(s) /\ s[i + 1] \in IdentChars THEN RunEnd(s, i + 1) ELSE i

\* expr with every whole identifier that is a key of subs replaced by the
\* parenthesised expression of that entry, and nothing else changed
RECURSIVE TokenSubstitute(_, _, _)
TokenSubstitute(expr, subs, i) ==
    IF i > Len(expr) THEN << >>
    ELSE IF expr[i] \notin IdentChars
    THEN << expr[i] >> \o TokenSubstitute(expr, subs, i + 1)
    ELSE LET j     == RunEnd(expr, i)
             token == SubSeq(expr, i, j)
         IN (IF HasKey(subs, token)
             THEN << "(" >> \o Lookup(subs, token).expr \o << ")" >>
             ELSE token)
            \o TokenSubstitute(expr, subs, j + 1)

\* C4: the expression of a resolved derived metric is its declared
\* expression with each whole-identifier occurrence of a referenced metric
\* name replaced by that metric's parenthesised resolved expression, and no
\* other text altered.
C4_WholeIdentifierSubstitution ==
    result.op = "compile" =>
        \A rm \in Built :
            Definition(rm).type = "derived" =>
                rm.expr = TokenSubstitute(Definition(rm).type_params.expr,
                                          rm.sub_metrics, 1)

\* the expression of metric `name` resolved on its own
ResolvedAlone(name) ==
    ResolveSingleMetric(registry, Lookup(registry.metrics, name), 1).val.expr

\* C5: the expression of every resolved ratio metric, requested or reached
\* as a sub-metric, is (N) * 1.0 / NULLIF(D, 0) with N and D the resolved
\* expressions of its numerator and denominator metrics.
C5_RatioGuarded ==
    result.op = "compile" =>
        \A rm \in Built :
            Definition(rm).type = "ratio" =>
                LET p == Definition(rm).type_params
                    N == Lookup(rm.sub_metrics, p.numerator).expr
                    D == Lookup(rm.sub_metrics, p.denominator).expr
                IN /\ N = ResolvedAlone(p.numerator)
                   /\ D = ResolvedAlone(p.denominator)
                   /\ rm.expr = << "(" >> \o N \o << ")", " ", "*", " ", "1", ".", "0", " ", "/", " ", "N", "U", "L", "L", "I", "F", "(" >> \o D \o << ",", " ", "0", ")" >>

\* a compile that reached a ratio metric as a sub-metric of a requested
\* derived metric, and returned
C5_Witness ==
    /\ result.op = "compile"
    /\ ~ IsError(result.out.err)
    /\ \E rm \in Range(result.out.locals.resolved_metrics) :
          /\ Definition(rm).type = "derived"
          /\ \E sub \in Range(rm.sub_metrics) : Definition(sub).type = "ratio"

-----------------------------------------------------------------------------
(* _build_measure_expr on its own: every aggregation kind, with and without *)
(* a filter                                                                 *)

AggregationTypes == { "sum", "count", "count_distinct", "avg", "min", "max" }

MeasureExprs == { << "a" >>, << "b" >>, << "a", "*", "b" >>, << "1" >> }

Filters == { None, Some(<< >>), Some(<< "s" >>), Some(<< "t" >>), Some(<< "s", "=", "1" >>) }

InitMeasure ==
    /\ directory = [exists |-> FALSE, files |-> << >>]
    /\ registry = EmptyRegistry
    /\ loads = 0
    /\ status = "new"
    /\ load_error = NoError
    /\ result = Idle
    /\ frames = << >>
    /\ hash_order = << >>
    /\ executor = None
    /\ duckdb = NoConnections

\* self._build_measure_expr(measure, filter_expr)
BuildMeasure ==
    /\ result = Idle
    /\ \E agg \in AggregationTypes, e \in MeasureExprs, f \in Filters :
         LET measure == Measure(<< "M" >>, agg, e) IN
         result' = Call("_build_measure_expr",
                        [measure |-> measure, filter_expr |-> f],
                        Returned(BuildMeasureExpr(measure, f)))
    /\ UNCHANGED <<directory, registry, loads, status, load_error, frames, hash_order, executor, duckdb>>

NextMeasure ==
    \/ BuildMeasure
    \/ Return

SpecMeasure == InitMeasure /\ [][NextMeasure]_vars

\* the SQL function of an aggregation kind
FunctionName(agg) ==
    CASE agg = "sum"   -> << "S", "U", "M" >>
      [] agg = "avg"   -> << "A", "V", "G" >>
      [] agg = "min"   -> << "M", "I", "N" >>
      [] agg = "max"   -> << "M", "A", "X" >>
      [] agg \in {"count", "count_distinct"} -> << "C", "O", "U", "N", "T" >>

\* FN(E), FN(CASE WHEN F THEN E END), and for count_distinct the same with
\* DISTINCT right after the opening parenthesis
AggregateText(measure, filtered, F) ==
    FunctionName(measure.agg) \o << "(" >>
      \o (IF measure.agg = "count_distinct" THEN << "D", "I", "S", "T", "I", "N", "C", "T", " " >> ELSE << >>)
      \o (IF filtered
          THEN << "C", "A", "S", "E", " ", "W", "H", "E", "N", " " >> \o F \o << " ", "T", "H", "E", "N", " " >> \o measure.expr \o << " ", "E", "N", "D" >>
          ELSE measure.expr)
      \o << ")" >>

\* C6 as stated: the conditional form whenever the metric has a filter.
C6_FilterInsideAggregate ==
    result.op = "_build_measure_expr" =>
        LET f == result.arg.filter_expr IN
        result.out.val = AggregateText(result.arg.measure, ~ IsNone(f),
                                       IF IsNone(f) THEN << >> ELSE Get(f))

\* C6 amended: the conditional form whenever the metric has a non-empty
\* filter; an absent filter and an empty one both give the plain form.
C6_NonEmptyFilterInsideAggregate ==
    result.op = "_build_measure_expr" =>
        LET f == result.arg.filter_expr IN
        result.out.val = AggregateText(result.arg.measure,
                                       ~ IsNone(f) /\ Get(f) # << >>,
                                       IF IsNone(f) THEN << >> ELSE Get(f))

\* a count_distinct measure built with a non-empty filter
C6_Witness ==
    /\ result.op = "_build_measure_expr"
    /\ result.arg.measure.agg = "count_distinct"
    /\ result.arg.filter_expr = Some(<< "s", "=", "1" >>)
    /\ ~ IsError(result.out.err)

-----------------------------------------------------------------------------
(* Properties of the calls on a registry *)

\* C11: a lookup or a compile call, whether it returns or raises, leaves the
\* registry's model map, metric map and both reverse indices as they were.
C11_CallsLeaveRegistry ==
    [][ result'.op \in Lookups \cup {"compile"} => registry' = registry ]_vars

\* a compile that raised and a lookup that raised on a loaded registry
C11_Witness ==
    /\ status = "loaded"
    /\ Len(registry.metrics) > 0
    /\ result.op \in Lookups \cup {"compile"}
    /\ IsError(result.out.err)

\* the outcomes of compiling the one metric `name` alone, over the iteration
\* orders and the formatter's outcomes
AloneOutcomes(reg, name) ==
    LET query == Plain(<< name >>, << >>) IN
    { Compile(reg, query, FirstIn(order, QueryTables(reg, query)), parses) :
        order \in HashOrders, parses \in BOOLEAN }

FailsAlone(reg, name) == \A out \in AloneOutcomes(reg, name) : IsError(out.err)

CompilesAlone(reg, name) == \A out \in AloneOutcomes(reg, name) : ~ IsError(out.err)

\* the positions of the messages about metric `name`
MessagesAbout(messages, name) ==
    { j \in 1..Len(messages) : messages[j].metric = name }

\* C13: validate() returns and does not raise; the list it returns holds
\* exactly one message for each registered metric whose compile alone fails,
\* carrying that error, and none for a metric that compiles, also for the
\* metrics that come after a failing one.
C13_ValidateReportsEachFailure ==
    result.op = "validate" =>
        /\ ~ IsError(result.out.err)
        /\ \A m \in Range(registry.metrics) :
             /\ FailsAlone(registry, m.name) \/ CompilesAlone(registry, m.name)
             /\ Cardinality(MessagesAbout(result.out.val, m.name))
                  = IF FailsAlone(registry, m.name) THEN 1 ELSE 0
             /\ \A j \in MessagesAbout(result.out.val, m.name) :
                  \E out \in AloneOutcomes(registry, m.name) :
                     result.out.val[j].error = out.err
        /\ \A j \in 1..Len(result.out.val) :
             result.out.val[j].metric \in Keys(registry.metrics)

\* a validation with two failing metrics and a metric that compiles after
\* the first failing one
C13_Witness ==
    /\ result.op = "validate"
    /\ Len(result.out.val) >= 2
    /\ \E i, j \in 1..Len(registry.metrics) :
         /\ i < j
         /\ FailsAlone(registry, registry.metrics[i].name)
         /\ CompilesAlone(registry, registry.metrics[j].name)

\* the params class a metric type declares
VariantOf(type) ==
    CASE type = "simple"     -> "SimpleMetricParams"
      [] type = "derived"    -> "DerivedMetricParams"
      [] type = "ratio"      -> "RatioMetricParams"
      [] type = "cumulative" -> "CumulativeMetricParams"
      [] OTHER               -> "none"

\* C15: every Metric of the registry, and every Metric a construction
\* returns, has one of the four types and the params variant of that type;
\* a construction with a mismatched variant or an unknown type raises; and
\* no compile ends in the unknown-type branch of the dispatch.
C15_MetricCarriesItsVariant ==
    /\ \A m \in Range(registry.metrics) :
         m.type_params.class = VariantOf(m.type)
    /\ result.op = "Metric" =>
         /\ IsError(result.out.err) <=> result.arg.class # VariantOf(result.arg.type)
         /\ ~ IsError(result.out.err) =>
              /\ result.out.val.type = result.arg.type
              /\ result.out.val.type_params.class = VariantOf(result.arg.type)
    /\ result.op = "compile" => result.out.err.msg # "Unknown metric type"

\* a construction with a known type and another type's params, refused
C15_Witness ==
    /\ result.op = "Metric"
    /\ result.arg.type = "simple"
    /\ result.arg.class = "DerivedMetricParams"
    /\ IsError(result.out.err)

-----------------------------------------------------------------------------
(* Properties of the errors of compile *)

FormatterFailed == Caught("_format_sql", "Exception", << >>) \in result.out.caught

\* the text compile assembled from the clauses it built
Assembled ==
    LET l == result.out.locals IN
    AssembleQuery(l.select_exprs, l.from_clause, l.where_conditions,
                  l.group_by_exprs, l.order_by_exprs, result.arg.limit)

\* C14 as claimed: when the formatter raises compile returns the assembled
\* text unformatted, and no other exception is caught inside compile.
C14_OnlyFormatterRecovered ==
    result.op = "compile" =>
        /\ FormatterFailed =>
             /\ ~ IsError(result.out.err)
             /\ ~ result.out.formatted
             /\ result.out.val = Assembled
        /\ \A x \in result.out.caught : x.in = "_format_sql"

\* the requested dimensions the registry's lookups do not find
UnfoundDimensions(reg, query) ==
    { d \in Range(query.dimensions) : IsError(get_dimension(reg, d).err) }

\* C14: when the formatter raises compile returns the assembled text
\* unformatted; the only other exception caught inside compile is the
\* KeyError of the lookup of a requested dimension the registry does not
\* find; compile raises exactly when resolving the metrics raises or no
\* table is found, and then with that error.
C14_FormatterFailureRecovered ==
    result.op = "compile" =>
        /\ FormatterFailed =>
             /\ ~ IsError(result.out.err)
             /\ ~ result.out.formatted
             /\ result.out.val = Assembled
        /\ \A x \in result.out.caught :
             \/ x = Caught("_format_sql", "Exception", << >>)
             \/ /\ x.type = "KeyError"
                /\ x.in \in {"_get_required_tables", "_build_dimension_expr",
                             "_find_time_dimension"}
                /\ x.name \in UnfoundDimensions(registry, result.arg)
        /\ LET resolved == ResolveMetrics(registry, result.arg.metrics, 1, << >>) IN
           IF IsError(resolved.err) THEN result.out.err = resolved.err
           ELSE IF result.out.locals.tables = {}
           THEN result.out.err.msg = "No tables found for query"
           ELSE ~ IsError(result.out.err)

\* a compile whose formatter raised, after the lookup of an unregistered
\* dimension raised too
C14_Witness ==
    /\ result.op = "compile"
    /\ FormatterFailed
    /\ Cardinality(result.out.caught) > 1
    /\ ~ IsError(result.out.err)

-----------------------------------------------------------------------------
(* Properties of the clauses of a compiled query *)

\* the last call was a compile that returned
CompileReturned == result.op = "compile" /\ ~ IsError(result.out.err)

As(expr, name) == expr \o << " ", "A", "S", " " >> \o name

\* C16: the SELECT list of a query that compiles has one entry per requested
\* dimension, in request order and aliased to its name, followed by one
\* entry <resolved expression> AS <name> per entry of the requested metrics
\* list, in request order.
C16_SelectFollowsRequest ==
    CompileReturned =>
        LET q == result.arg
            s == result.out.locals.select_exprs
            D == Len(q.dimensions)
        IN /\ Len(s) = D + Len(q.metrics)
           /\ \A i \in 1..D :
                \E expr \in { SubSeq(s[i], 1, k) : k \in 0..Len(s[i]) } :
                    s[i] = As(expr, q.dimensions[i])
           /\ \A k \in 1..Len(q.metrics) :
                D + k <= Len(s) =>
                    s[D + k] = As(ResolvedAlone(q.metrics[k]), q.metrics[k])

\* the dimension records registered under a name
RegisteredDimension(reg, name) == RegisteredUnder(reg, "get_dimension", name)

\* the expression of a registered dimension requested as `name`; an empty
\* expression or an empty grain counts as none
DimensionText(dim, name, time_grain) ==
    LET col_expr == IF Truthy(dim.expr) THEN Get(dim.expr) ELSE name IN
    IF dim.type = "time" /\ Truthy(time_grain)
    THEN << "D", "A", "T", "E", "_", "T", "R", "U", "N", "C", "(", "'" >> \o Get(time_grain) \o << "'", ",", " " >> \o col_expr \o << ")" >>
    ELSE col_expr

\* the SELECT entry of the i-th requested dimension, without its alias
SelectedDimension(i) ==
    LET entry == result.out.locals.select_exprs[i]
        alias == As(<< >>, result.arg.dimensions[i])
    IN SubSeq(entry, 1, Len(entry) - Len(alias))

\* the tables of the resolved metrics of the last compile
TablesOfMetrics ==
    UNION { MetricTables(rm) : rm \in Range(result.out.locals.resolved_metrics) }

\* C17: on a loaded registry, in a query that compiles the expression of a requested dimension is
\* DATE_TRUNC('<grain>', <expr>) when it is registered with type time and
\* the query has a grain, its expression (its name when it has none) when it
\* is registered otherwise, and the bare name when it is not registered;
\* only registered dimensions add a table to the required tables.
C17_DimensionExpression ==
    (status = "loaded" /\ CompileReturned) =>
        LET q == result.arg IN
        /\ \A i \in 1..Len(q.dimensions) :
             LET found == RegisteredDimension(registry, q.dimensions[i]) IN
             IF found = {}
             THEN SelectedDimension(i) = q.dimensions[i]
             ELSE \E dim \in found :
                    SelectedDimension(i) = DimensionText(dim, q.dimensions[i], q.time_grain)
        /\ result.out.locals.tables \subseteq
             TablesOfMetrics \cup
             { get_table_name(m) :
                 m \in UNION { RegisteredUnder(registry, "get_model_for_dimension", d) :
                                 d \in Range(q.dimensions) } }

\* the positions of the requested dimensions registered with type time
TimePositions(reg, dimensions) ==
    { i \in 1..Len(dimensions) :
        \E dim \in RegisteredDimension(reg, dimensions[i]) : dim.type = "time" }

Min(S) == CHOOSE n \in S : \A m \in S : n <= m

\* the date bounds on column expression col_expr
DateBounds(col_expr, query) ==
    (IF IsNone(query.start_date) THEN << >>
     ELSE << col_expr \o << " ", ">", "=", " ", "'" >> \o DateText(Get(query.start_date)) \o << "'" >> >>)
    \o
    (IF IsNone(query.end_date) THEN << >>
     ELSE << col_expr \o << " ", "<", "=", " ", "'" >> \o DateText(Get(query.end_date)) \o << "'" >> >>)

\* C18: on a loaded registry the WHERE conditions of a query that compiles are the caller's
\* filters in order, followed, when a date is supplied and a requested
\* dimension is registered with type time, by the bounds >= start and
\* <= end on the expression of the first such dimension; nothing else.
C18_WhereConditions ==
    (status = "loaded" /\ CompileReturned) =>
        LET q == result.arg
            w == result.out.locals.where_conditions
            T == TimePositions(registry, q.dimensions)
        IN IF T = {} \/ (IsNone(q.start_date) /\ IsNone(q.end_date))
           THEN w = q.filters
           ELSE LET name == q.dimensions[Min(T)] IN
                \E dim \in RegisteredDimension(registry, name) :
                    /\ dim.type = "time"
                    /\ w = q.filters \o DateBounds(DimensionText(dim, name, None), q)

\* text t occurs in text s
Occurs(s, t) == \E k \in 1..Len(s) : StartsAt(s, t, k)

\* C19: a query that compiles has a GROUP BY clause exactly when it requests
\* a dimension, and the clause lists, position by position, the expressions
\* of the dimension entries of the SELECT list without their aliases.
C19_GroupByMatchesSelect ==
    CompileReturned =>
        LET q == result.arg
            g == result.out.locals.group_by_exprs
        IN /\ Len(g) = Len(q.dimensions)
           /\ \A i \in 1..Len(g) : g[i] = SelectedDimension(i)
           /\ IF Len(q.dimensions) > 0
              THEN Occurs(result.out.val \o << "\n" >>, << "\n", "G", "R", "O", "U", "P", " ", "B", "Y", " " >> \o Join(g, << ",", " " >>) \o << "\n" >>)
              ELSE ~ Occurs(result.out.val, << "\n", "G", "R", "O", "U", "P", " ", "B", "Y", " " >>)

\* a compiled query grouped by a truncated time dimension and a second
\* dimension
C19_Witness ==
    /\ CompileReturned
    /\ Len(result.arg.dimensions) > 1
    /\ \E i \in 1..Len(result.arg.dimensions) :
         StartsWith(result.out.locals.group_by_exprs[i], << "D", "A", "T", "E", "_", "T", "R", "U", "N", "C", "(", "'", "m", "o", "n", "t", "h", "'", ",", " " >>)

\* C20: the ORDER BY of a query that compiles is the caller's ordering
\* columns as given when there are any, otherwise the expressions of the
\* requested dimensions as the SELECT list has them, and there is no
\* ORDER BY clause when there are neither.
C20_OrderBy ==
    CompileReturned =>
        LET q == result.arg
            o == result.out.locals.order_by_exprs
        IN /\ IF Len(q.order_by) > 0 THEN o = q.order_by
              ELSE /\ Len(o) = Len(q.dimensions)
                   /\ \A i \in 1..Len(o) : o[i] = SelectedDimension(i)
           /\ IF Len(q.order_by) > 0 \/ Len(q.dimensions) > 0
              THEN Occurs(result.out.val \o << "\n" >>, << "\n", "O", "R", "D", "E", "R", " ", "B", "Y", " " >> \o Join(o, << ",", " " >>) \o << "\n" >>)
              ELSE ~ Occurs(result.out.val, << "\n", "O", "R", "D", "E", "R", " ", "B", "Y", " " >>)

\* a compiled query with ordering columns that differ from its dimensions
C20_Witness ==
    /\ CompileReturned
    /\ Len(result.arg.dimensions) > 0
    /\ Len(result.arg.order_by) > 0
    /\ result.out.locals.order_by_exprs # result.out.locals.group_by_exprs

\* text s ends with text t
EndsWith(s, t) == Len(s) >= Len(t) /\ StartsAt(s, t, Len(s) - Len(t) + 1)

\* C21: a query that compiles has a LIMIT clause only for a positive limit:
\* for a limit n > 0 its text ends with the line LIMIT n, and for a limit
\* that is absent, zero or negative it has no LIMIT clause.
C21_LimitOnlyPositive ==
    CompileReturned =>
        LET limit == result.arg.limit IN
        IF ~ IsNone(limit) /\ Get(limit) > 0
        THEN EndsWith(result.out.val, << "\n", "L", "I", "M", "I", "T", " " >> \o NatText(Get(limit)))
        ELSE ~ Occurs(result.out.val, << "\n", "L", "I", "M", "I", "T", " " >>)

-----------------------------------------------------------------------------
(* The reference graph of the derived and ratio metrics *)

\* the registered metrics that metric `name` refers to
References(reg, name) ==
    LET m == Lookup(reg.metrics, name)
        p == m.type_params
    IN (CASE m.type = "derived" -> Range(p.metrics)
          [] m.type = "ratio"   -> { p.numerator, p.denominator }
          [] OTHER              -> {})
       \cap Keys(reg.metrics)

\* the names reached from the set S in at most k reference steps
RECURSIVE ReachedFrom(_, _, _)
ReachedFrom(reg, S, k) ==
    IF k = 0 THEN S
    ELSE ReachedFrom(reg, S \cup UNION { References(reg, n) : n \in S }, k - 1)

\* the names metric `name` refers to, directly or through other metrics
Descendants(reg, name) ==
    ReachedFrom(reg, References(reg, name), Len(reg.metrics))

OnCycle(reg, name) == name \in Descendants(reg, name)

Acyclic(reg) == \A name \in Keys(reg.metrics) : ~ OnCycle(reg, name)

Max(S) == CHOOSE n \in S : \A m \in S : n >= m

\* the number of metrics on the longest reference chain that starts at
\* `name`, in an acyclic graph
RECURSIVE LongestChain(_, _)
LongestChain(reg, name) ==
    1 + Max({0} \cup { LongestChain(reg, n) : n \in References(reg, name) })

\* the depth the recursion of _resolve_single_metric reached to build rm
RECURSIVE ResolutionDepth(_)
ResolutionDepth(rm) ==
    1 + Max({0} \cup { ResolutionDepth(rm.sub_metrics[i]) : i \in 1..Len(rm.sub_metrics) })

\* C22: on a registry whose reference graph is acyclic compile ends with a
\* text or an error and not in the interpreter's recursion limit (as long as
\* the limit is above the longest chain), and the depth of the resolution
\* of each requested metric is at most the length of the longest reference
\* chain that starts at it.
C22_ResolutionBoundedByChain ==
    (result.op = "compile" /\ Acyclic(registry)) =>
        /\ (\A name \in Keys(registry.metrics) : LongestChain(registry, name) <= MaxDepth)
              => result.out.err.type # "RecursionError"
        /\ \A rm \in Range(result.out.locals.resolved_metrics) :
              ResolutionDepth(rm) <= LongestChain(registry, rm.name)

\* a compile of a derived metric over a ratio metric over simple metrics
C22_Witness ==
    /\ CompileReturned
    /\ Acyclic(registry)
    /\ \E rm \in Range(result.out.locals.resolved_metrics) :
          ResolutionDepth(rm) = 3

\* C24: a compile whose first requested metric is on a reference cycle of a
\* loaded registry does not return and does not end in an error of its
\* own: the resolution recurses until the interpreter stops it.
C24_CycleRecursesUnbounded ==
    (/\ status = "loaded"
     /\ result.op = "compile"
     /\ Len(result.arg.metrics) > 0
     /\ HasKey(registry.metrics, result.arg.metrics[1])
     /\ OnCycle(registry, result.arg.metrics[1]))
    => result.out.err.type = "RecursionError"

\* the last call was a compile that resolved its metrics, and so went on
\* to determine its tables
TablesDetermined ==
    /\ result.op = "compile"
    /\ ~ IsError(ResolveMetrics(registry, result.arg.metrics, 1, << >>).err)

\* C25: on a loaded registry the tables determined for a query contain the
\* table of the model of every simple or cumulative metric resolved for it,
\* at any nesting depth, and the table of the model of every requested
\* dimension that is registered.
C25_TablesOfAllSubMetrics ==
    (status = "loaded" /\ TablesDetermined) =>
        /\ \A rm \in Built :
             Definition(rm).type \in {"simple", "cumulative"} =>
                 get_table_name(Get(rm.model)) \in result.out.locals.tables
        /\ \A d \in Range(result.arg.dimensions) :
             \A m \in RegisteredUnder(registry, "get_model_for_dimension", d) :
                 get_table_name(m) \in result.out.locals.tables

\* the orders of the sequence s
OrdersOf(s) ==
    { [i \in 1..Len(s) |-> s[p[i]]] :
        p \in { q \in [1..Len(s) -> 1..Len(s)] : Injective(q) } }

\* C26: the expression of every resolved derived metric is what the
\* substitution gives for every order of its referenced metrics: no
\* substitution rewrites the text another one inserted.
C26_SubstitutionOrderIndependent ==
    result.op = "compile" =>
        \A rm \in Built :
            Definition(rm).type = "derived" =>
                \A subs \in OrdersOf(rm.sub_metrics) :
                    rm.expr = Substitute(Definition(rm).type_params.expr, subs, 1)

\* the registry with the filters of its derived and ratio metrics removed
WithoutDerivedFilters(reg) ==
    [reg EXCEPT !.metrics =
        [i \in 1..Len(reg.metrics) |->
            IF reg.metrics[i].type \in {"derived", "ratio"}
            THEN [reg.metrics[i] EXCEPT !.filter = None]
            ELSE reg.metrics[i]]]

\* the last compile, had the derived and ratio metrics no filters
CompiledWithoutDerivedFilters ==
    Compile(WithoutDerivedFilters(registry), result.arg,
            result.out.locals.from_clause, result.out.formatted)

\* C27: a compile returns the same text, or raises the same error, as it
\* does when the derived and ratio metrics have no filters; the filter of a
\* derived or ratio metric is in no WHERE condition; and every simple or
\* cumulative metric resolved for it, requested or referenced, has its own
\* non-empty filter inside its aggregate.
C27_DerivedFilterIgnored ==
    result.op = "compile" =>
        /\ result.out.val = CompiledWithoutDerivedFilters.val
        /\ result.out.err = CompiledWithoutDerivedFilters.err
        /\ result.out.locals.where_conditions
             = CompiledWithoutDerivedFilters.locals.where_conditions
        /\ \A rm \in Built :
             (Definition(rm).type \in {"simple", "cumulative"} /\ Truthy(Definition(rm).filter))
                => Occurs(rm.expr, << "C", "A", "S", "E", " ", "W", "H", "E", "N", " " >> \o Get(Definition(rm).filter) \o << " ", "T", "H", "E", "N", " " >>)

\* a compiled derived metric with a filter whose sub-metric has another
C27_Witness ==
    /\ CompileReturned
    /\ \E rm \in Range(result.out.locals.resolved_metrics) :
          /\ Definition(rm).type = "derived"
          /\ Truthy(rm.filter)
          /\ \E sub \in Range(rm.sub_metrics) :
                Truthy(sub.filter) /\ sub.filter # rm.filter

-----------------------------------------------------------------------------
(* Loading a directory again *)

\* C28: load_directory on a registry that loaded the same directory, when
\* the directory defines a model or a metric, raises the duplicate error of
\* the directory's first entry and leaves the model map, the metric map and
\* both reverse indices as they were.
C28_ReloadRejected ==
    [][ (/\ status = "loaded"
         /\ loads' = loads + 1
         /\ Len(Entries(directory.files, 1)) > 0)
        => LET first == Entries(directory.files, 1)[1] IN
           /\ registry' = registry
           /\ status' = "failed"
           /\ result'.out.err
                = Raise("ValueError",
                        IF first.kind = "model" THEN "Duplicate semantic model"
                        ELSE "Duplicate metric",
                        << first.def.name >>) ]_vars

\* a second load of a directory of two files, the first of them empty,
\* whose first load succeeded
C28_Witness ==
    /\ loads = 2
    /\ result.op = "load_directory"
    /\ ~ IsError(LoadDirectory(EmptyRegistry, directory).err)
    /\ Len(directory.files) = 2
    /\ directory.files[1].empty
    /\ Len(registry.metrics) > 0
    /\ status = "failed"

-----------------------------------------------------------------------------
(* The reverse indices after a load *)

\* C29: after every load that returned, the measure (dimension) index has
\* exactly the measure (dimension) names some registered model declares as
\* its keys, each key is mapped to the name of a registered model, that model
\* declares exactly one measure (dimension) of the name, and whenever
\* get_model_for_measure (get_model_for_dimension) returns a model for an
\* indexed name, that model's own lookup finds the name, so that get_measure
\* (get_dimension) does not take its branch for a missing entry.
C29_IndicesExact ==
    status = "loaded" =>
      /\ DOMAIN registry.measure_to_model = RegisteredMeasures(registry)
      /\ DOMAIN registry.dimension_to_model = RegisteredDimensions(registry)
      /\ \A n \in DOMAIN registry.measure_to_model :
            /\ HasKey(registry.semantic_models, registry.measure_to_model[n])
            /\ Cardinality(Declarations(
                   Lookup(registry.semantic_models,
                          registry.measure_to_model[n]).measures, n)) = 1
            /\ LET m == get_model_for_measure(registry, n) IN
                  ~ IsError(m.err) => ~ IsNone(ModelGetMeasure(m.val, n))
      /\ \A n \in DOMAIN registry.dimension_to_model :
            /\ HasKey(registry.semantic_models, registry.dimension_to_model[n])
            /\ Cardinality(Declarations(
                   Lookup(registry.semantic_models,
                          registry.dimension_to_model[n]).dimensions, n)) = 1
            /\ LET m == get_model_for_dimension(registry, n) IN
                  ~ IsError(m.err) => ~ IsNone(ModelGetDimension(m.val, n))

\* get_measure has returned the measure of an indexed name from a registry
\* whose indices map several measures and several dimensions
C29_Witness ==
    /\ status = "loaded"
    /\ Cardinality(DOMAIN registry.measure_to_model) > 2
    /\ Cardinality(DOMAIN registry.dimension_to_model) > 2
    /\ result.op = "get_measure"
    /\ ~ IsError(result.out.err)
    /\ result.arg \in DOMAIN registry.measure_to_model

-----------------------------------------------------------------------------
(* get_table_name on its own: quoted references and plain table names *)

NameChars == { "t", "'", "\"", ")" }

\* the texts over NameChars of length n
RECURSIVE TextsOfLen(_)
TextsOfLen(n) ==
    IF n = 0 THEN { << >> }
    ELSE { Append(t, c) : t \in TextsOfLen(n - 1), c \in NameChars }

PhysicalNames == UNION { TextsOfLen(n) : n \in 0..MaxNameLen }

\* the table reference of each form for the physical name X
TableReference(form, X) ==
    CASE form = "single" -> << "r", "e", "f", "(", "'" >> \o X \o << "'", ")" >>
      [] form = "double" -> << "r", "e", "f", "(", "\"" >> \o X \o << "\"", ")" >>
      [] form = "plain"  -> X

\* model.get_table_name()
GetTableName ==
    /\ result = Idle
    /\ \E form \in {"single", "double", "plain"}, X \in PhysicalNames :
         LET model == SemanticModel(<< "M" >>, TableReference(form, X), << >>, << >>) IN
         result' = Call("get_table_name", [form |-> form, name |-> X, model |-> model],
                        Returned(get_table_name(model)))
    /\ UNCHANGED <<directory, registry, loads, status, load_error, frames, hash_order, executor, duckdb>>

NextTable ==
    \/ GetTableName
    \/ Return

SpecTable == InitMeasure /\ [][NextTable]_vars

\* C23: get_table_name returns X for a reference ref('X') or ref("X"), and
\* returns a reference that does not start with ref( unchanged.
C23_TableNameResolved ==
    result.op = "get_table_name" =>
        /\ result.arg.form \in {"single", "double"} => result.out.val = result.arg.name
        /\ ~ StartsWith(result.arg.model.table, << "r", "e", "f", "(" >>)
              => result.out.val = result.arg.model.table

-----------------------------------------------------------------------------
(* DuckDBExecutor.  Each method returns [ex, db, out]: the executor and the *)
(* database library after the call and what the call returned or raised.    *)
(* connects tells whether duckdb.connect succeeds, runs whether the         *)
(* database accepts the statement.                                          *)

\* __init__: _conn = None
DuckDBExecutor == [conn |-> None]

Exec(ex, db, out) == [ex |-> ex, db |-> db, out |-> out]

\* duckdb.connect(database_path or ":memory:")
Connect(db, connects) ==
    IF connects
    THEN [db |-> [opened |-> db.opened + 1, open |-> db.open \cup { db.opened + 1 }],
          out |-> Returned(db.opened + 1)]
    ELSE [db |-> db, out |-> Raised(Raise("IOException", "Cannot open file", << >>))]

\* the conn property
Conn(ex, db, connects) ==
    IF IsNone(ex.conn)
    THEN LET c == Connect(db, connects) IN
         IF IsError(c.out.err) THEN Exec(ex, db, c.out)
         ELSE Exec([ex EXCEPT !.conn = Some(c.out.val)], c.db, c.out)
    ELSE Exec(ex, db, Returned(Get(ex.conn)))

\* connection.execute(sql) of the library
ConnectionExecute(db, connection, runs) ==
    IF connection \notin db.open
    THEN Raised(Raise("ConnectionException", "Connection already closed", << >>))
    ELSE IF ~ runs THEN Raised(Raise("Error", "statement failed", << >>))
    ELSE Returned(<< >>)

\* execute(sql): also execute_raw, load_parquet, load_csv, table_exists and
\* get_table_schema, which start with self.conn.execute as well
Execute(ex, db, connects, runs) ==
    LET c == Conn(ex, db, connects) IN
    IF IsError(c.out.err) THEN c
    ELSE Exec(c.ex, c.db, ConnectionExecute(c.db, c.out.val, runs))

\* create_table_from_data(table_name, columns, data)
CreateTableFromData(ex, db, data, connects, runs) ==
    IF Len(data) = 0
    THEN Exec(ex, db, Raised(Raise("ValueError", "Cannot create table from empty data", << >>)))
    ELSE Execute(ex, db, connects, runs)

\* a faulty close: the connection is closed and the executor keeps it
Close_KeepingReference(ex, db) ==
    IF ~ IsNone(ex.conn)
    THEN Exec(ex, [db EXCEPT !.open = @ \ { Get(ex.conn) }], Returned(<< >>))
    ELSE Exec(ex, db, Returned(<< >>))

\* close()
Close(ex, db) ==
    IF ~ IsNone(ex.conn)
    THEN Exec([ex EXCEPT !.conn = None],
              [db EXCEPT !.open = @ \ { Get(ex.conn) }], Returned(<< >>))
    ELSE Exec(ex, db, Returned(<< >>))

\* __exit__(exc_type, exc_val, exc_tb)
Exit(ex, db) == Close(ex, db)

-----------------------------------------------------------------------------
(* MetricStore: its construction, query and close, and the calls made on    *)
(* its executor.                                                            *)

\* the queries asked of the store
StoreQueries == { Plain(<< << "r" >> >>, << >>), Plain(<< << "n" >> >>, << << "g" >> >>) }

\* the data handed to create_table_from_data
TableData == { << >>, << << 1 >> >> }

\* a call that finds no connection held may open one
MayConnect == ~ IsNone(Get(executor).conn) \/ duckdb.opened < MaxConnects

\* the executor and the library after a call, and its outcome
Executed(op, arg, x) ==
    /\ executor' = Some(x.ex)
    /\ duckdb' = x.db
    /\ result' = Call(op, arg, x.out)

\* MetricStore(metrics_path, database_path)
NewStore ==
    /\ result = Idle
    /\ status = "new"
    /\ LET s == LoadDirectory(EmptyRegistry, directory) IN
        /\ registry' = s.reg
        /\ load_error' = s.err
        /\ status' = IF IsError(s.err) THEN "failed" ELSE "loaded"
        /\ result' = Call("MetricStore", << >>,
                          IF IsError(s.err) THEN Raised(s.err) ELSE Returned(<< >>))
    /\ executor' = Some(DuckDBExecutor)
    /\ loads' = loads + 1
    /\ UNCHANGED <<directory, frames, hash_order, duckdb>>

\* store.query(...): compile, then executor.execute(sql)
StoreQuery ==
    /\ result = Idle
    /\ status = "loaded"
    /\ MayConnect
    /\ \E query \in StoreQueries, fmt, connects, runs \in BOOLEAN :
         \E first \in QueryTables(registry, query) \cup { << >> } :
            /\ first = << >> => QueryTables(registry, query) = {}
            /\ LET sql == Compile(registry, query, first, fmt) IN
                 IF IsError(sql.err)
                 THEN Executed("query", query,
                               Exec(Get(executor), duckdb, Raised(sql.err)))
                 ELSE Executed("query", query,
                               Execute(Get(executor), duckdb, connects, runs))
    /\ UNCHANGED <<directory, registry, loads, status, load_error, frames, hash_order>>

\* store.executor.execute(sql)
ExecutorExecute ==
    /\ result = Idle
    /\ status = "loaded"
    /\ MayConnect
    /\ \E connects, runs \in BOOLEAN :
         Executed("execute", << >>, Execute(Get(executor), duckdb, connects, runs))
    /\ UNCHANGED <<directory, registry, loads, status, load_error, frames, hash_order>>

\* store.executor.create_table_from_data(table_name, columns, data)
ExecutorCreateTable ==
    /\ result = Idle
    /\ status = "loaded"
    /\ MayConnect
    /\ \E data \in TableData, connects, runs \in BOOLEAN :
         Executed("create_table_from_data", data,
                  CreateTableFromData(Get(executor), duckdb, data, connects, runs))
    /\ UNCHANGED <<directory, registry, loads, status, load_error, frames, hash_order>>

\* store.close(): self.executor.close()
StoreClose ==
    /\ result = Idle
    /\ status = "loaded"
    /\ Executed("close", << >>, Close(Get(executor), duckdb))
    /\ UNCHANGED <<directory, registry, loads, status, load_error, frames, hash_order>>

\* leaving a with block on the executor
ExecutorExit ==
    /\ result = Idle
    /\ status = "loaded"
    /\ Executed("__exit__", << >>, Exit(Get(executor), duckdb))
    /\ UNCHANGED <<directory, registry, loads, status, load_error, frames, hash_order>>

\* the caller takes the outcome of its call and goes on
ReturnStore ==
    /\ result # Idle
    /\ result' = Idle
    /\ UNCHANGED <<directory, registry, loads, status, load_error, frames, hash_order,
                   executor, duckdb>>

NextStore ==
    \/ NewStore
    \/ StoreQuery
    \/ ExecutorExecute
    \/ ExecutorCreateTable
    \/ StoreClose
    \/ ExecutorExit
    \/ ReturnStore

SpecStore == Init /\ [][NextStore]_vars

\* the connections the executor holds in a state
Held(ex) == IF IsNone(ex) \/ IsNone(Get(ex).conn) THEN {} ELSE { Get(Get(ex).conn) }

\* the calls that use the connection
Uses == { "query", "execute", "create_table_from_data" }

\* C30: the connections open are the ones the executor holds, at most one;
\* none has been opened when the construction of a store has returned or
\* raised; a connection is opened only by a call that uses the executor;
\* after close() or leaving a with block none is held or open, and with none
\* held the call changes nothing; a use with none held after earlier
\* connections were closed either holds a connection no earlier call opened
\* or raises before it has one.
C30_OneLazyConnection ==
    [][ /\ duckdb'.open = Held(executor')
        /\ Cardinality(duckdb'.open) <= 1
        /\ (result'.op = "MetricStore" \/ status' \in { "new", "failed" }) =>
              duckdb'.opened = 0 /\ Held(executor') = {}
        /\ duckdb'.opened # duckdb.opened => result'.op \in Uses
        /\ result'.op \in { "close", "__exit__" } =>
              /\ Held(executor') = {}
              /\ duckdb'.open = {}
              /\ Held(executor) = {} => executor' = executor /\ duckdb' = duckdb
        /\ (result'.op \in Uses /\ Held(executor) = {}) =>
              \/ /\ Held(executor') = { duckdb.opened + 1 }
                 /\ result'.out.err.type \in { "", "Error" }
              \/ /\ Held(executor') = {}
                 /\ duckdb' = duckdb
                 /\ result'.out.err.type \notin { "", "Error" } ]_vars

\* a statement has run on the second connection of an executor, the first
\* having been closed
C30_Witness ==
    /\ result.op = "execute"
    /\ ~ IsError(result.out.err)
    /\ duckdb.opened = 2
    /\ Held(executor) = { 2 }
    /\ duckdb.open = { 2 }

-----------------------------------------------------------------------------
(* Compile calls running concurrently on one loaded registry.  A call is a  *)
(* frame that advances one statement of compile at a time; the calls of    *)
(* different callers interleave statement by statement.  A compiler holds  *)
(* a reference to the registry and the dialect tag and nothing else, so    *)
(* calls on one compiler and calls on several are the same frames.         *)

Callers == 1..NumCallers

\* no call of this caller is running
NoFrame == [pc |-> "idle"]

ConcurrentDirectories ==
    { [exists |-> TRUE, files |-> << F_orders, F_users >>] }

ConcurrentQueries ==
    { Plain(<< << "w" >> >>, << << "x" >> >>),
      MetricQuery(<< << "r" >>, << "y" >> >>, << << "d" >> >>, << >>, Some(Month), Some(Jan5), None, None, << >>),
      MetricQuery(<< << "n" >> >>, << << "g" >> >>, << << "f" >> >>, None, None, None, Some(2), << >>) }

InitConcurrent ==
    /\ directory \in ConcurrentDirectories
    /\ registry = LoadDirectory(EmptyRegistry, directory).reg
    /\ loads = 1
    /\ status = "loaded"
    /\ load_error = NoError
    /\ result = Idle
    /\ frames = [c \in Callers |-> NoFrame]
    /\ hash_order \in RegistryOrders(registry)
    /\ executor = None
    /\ duckdb = NoConnections

\* caller c calls compile(query)
StartCompile(c) ==
    /\ frames[c].pc = "idle"
    /\ \E query \in ConcurrentQueries :
         frames' = [frames EXCEPT ![c] = NewFrame(query)]
    /\ UNCHANGED <<directory, registry, loads, status, load_error, result, hash_order, executor, duckdb>>

\* a faulty compiler that keeps resolved_metrics on the compiler object:
\* the statements after the resolution read what some call stored there
StepCompile_SharedLocals(c) ==
    /\ frames[c].pc \notin {"idle", "returned", "raised"}
    /\ \E parses \in BOOLEAN, d \in Callers :
         /\ frames[c].pc = "resolve" \/ frames[d].pc \notin {"idle", "resolve"}
         /\ frames' = [frames EXCEPT ![c] =
               CompileStep(registry,
                   [frames[c] EXCEPT !.resolved_metrics =
                        IF frames[c].pc = "resolve" THEN @
                        ELSE frames[d].resolved_metrics],
                   FirstIn(hash_order, frames[c].tables), parses)]
    /\ UNCHANGED <<directory, registry, loads, status, load_error, result, hash_order, executor, duckdb>>

\* the call of caller c executes its next statement
StepCompile(c) ==
    /\ frames[c].pc \notin {"idle", "returned", "raised"}
    /\ \E parses \in BOOLEAN :
         frames' = [frames EXCEPT ![c] =
               CompileStep(registry, frames[c],
                           FirstIn(hash_order, frames[c].tables), parses)]
    /\ UNCHANGED <<directory, registry, loads, status, load_error, result, hash_order, executor, duckdb>>

\* caller c takes what its call returned or raised
ReturnCompile(c) ==
    /\ Finished(frames[c])
    /\ frames' = [frames EXCEPT ![c] = NoFrame]
    /\ UNCHANGED <<directory, registry, loads, status, load_error, result, hash_order, executor, duckdb>>

NextConcurrent ==
    \E c \in Callers :
        \/ StartCompile(c)
        \/ StepCompile(c)
        \/ ReturnCompile(c)

SpecConcurrent == InitConcurrent /\ [][NextConcurrent]_vars

\* what compile(query) leaves when it runs alone in this process, given the
\* formatter's outcome
Alone(query, parses) ==
    Compile(registry, query,
            FirstIn(hash_order, QueryTables(registry, query)), parses)

\* C12: whatever the interleaving of the calls, a call that has finished
\* leaves the text or the exception, and the locals, that the same call
\* leaves when it runs alone: no call sees a value another call built.
C12_ConcurrentCompileAsAlone ==
    \A c \in Callers :
        Finished(frames[c]) =>
            Compiled(frames[c]) = Alone(frames[c].query, frames[c].formatted)

\* a call that needed two tables and a call of another query, both finished
\* and neither taken yet
C12_Witness ==
    \E c, d \in Callers :
        /\ frames[c].pc = "returned"
        /\ frames[d].pc = "returned"
        /\ frames[c].sql # frames[d].sql
        /\ Cardinality(frames[c].tables) > 1

=============================================================================
